---- MODULE Spec2Model ----
(***************************************************************************)
(* Model of the audit library github.com/w0rng/audit: the Logger (event    *)
(* construction, field filtering, diff reconstruction) over its Storage.   *)
(***************************************************************************)
EXTENDS Integers, Sequences, FiniteSets, TLC

VARIABLES
    events,     \* InMemoryStorage.events: key -> stored sequence of Event (keys with no entry are absent)
    now,        \* the clock read by time.Now()
    written,    \* per key, the write calls issued since the key's last Clear (bookkeeping of the caller)
    cleared,    \* in SpecReads: per key, the fields with a visible value other than nil in the history its last Clear removed (bookkeeping of the caller)
    ret,        \* the last call made on the Logger or the Storage, with what it returned
    maps,       \* the payload map objects the caller created: map id -> entries
    refs,       \* per key, the id of the map object each stored event's Payload refers to
    held,       \* the sequence the caller got from its last Events or Get call and still holds
    pc,         \* per goroutine, the statement it is at
    loc,        \* per goroutine, the locals of the call it is in
    mu,         \* the sync.RWMutex of the storage
    done,       \* per goroutine, the events of its write calls that have returned
    hs,         \* the slog Handlers constructed so far, in order of construction
    sink,       \* the records the underlying slog.Handler has been handed
    stores,     \* the Storages created so far: whether the caller made it, and its events per key
    loggers,    \* the Loggers created by New so far: the Storage each one holds
    callCount     \* per Storage, how often each of its methods has been called

heap == <<maps, refs, held>>
procs == <<pc, loc, mu, done>>
bridge == <<hs, sink>>
fleet == <<stores, loggers, callCount>>
vars == <<events, now, written, cleared, ret, maps, refs, held, pc, loc, mu, done, hs, sink,
          stores, loggers, callCount>>

(***************************************************************************)
(* Bounds of the model.                                                    *)
(***************************************************************************)
MaxEvents == 2       \* stored events, all keys together, in Spec
MaxTime == 2         \* the clock stops advancing here
MaxLogEvents == 3    \* stored events in SpecLogs
MaxFilterEvents == 3 \* stored events in SpecEvents
MaxAliasEvents == 2  \* stored events, all keys together, in SpecAlias
MaxCalls == 2        \* calls of one writing goroutine in SpecConc
MaxReadEvents == 2   \* stored events in SpecReads
MaxHandlers == 2      \* slog Handlers constructed in SpecSlog
MaxDerived == 3       \* slog Handlers, constructed or derived, in SpecDerive
MaxRecords == 2      \* records audited plus records handed on, in SpecSlog
MaxLoggers == 2      \* Loggers created by New in SpecMulti
MaxStorages == 1     \* Storages the caller makes itself in SpecMulti
MaxStoreCalls == 3   \* calls of Storage methods, all Storages together, in SpecMulti

(***************************************************************************)
(* Data model.                                                             *)
(***************************************************************************)
ActionCreate == "create"
ActionUpdate == "update"
ActionDelete == "delete"
HideText == "***"

\* Payload data is `any`.  Nil is the nil interface value; "a" and "b" are
\* strings; SliceX is a []string, a type Go cannot compare with ==.
Nil == "<nil>"
SliceX == "[]string{x}"
Comparable(d) == d # SliceX
TypeOf(d) == IF d = Nil THEN "nil" ELSE IF d = SliceX THEN "[]string" ELSE "string"

\* Value{Data, Hidden}
PlainValue(v) == [Data |-> v, Hidden |-> FALSE]
HiddenValue == [Data |-> Nil, Hidden |-> TRUE]
\* Value{Data: d, Hidden: true}, built by the caller without the constructor
HiddenData(d) == [Data |-> d, Hidden |-> TRUE]

\* Go's == / != on two interface values: identical non-comparable dynamic
\* types make the comparison panic; different dynamic types are unequal.
GoPanics(x, y) == TypeOf(x) = TypeOf(y) /\ ~Comparable(x)
GoEq(x, y) == x = y

Keys == {"k1", ""}
Fields == {"f", "g"}

Event(t, action, author, description, payload) ==
    [Timestamp |-> t, Action |-> action, Author |-> author,
     Description |-> description, Payload |-> payload]

\* a Go slice as a caller sees it: nil or not, and its elements
Slice(isNil, elems) == [isNil |-> isNil, elems |-> elems]

(***************************************************************************)
(* Storage (the default in-memory backend).                                *)
(***************************************************************************)
\* Store(key, event): append to the key's sequence
Store(key, event) ==
    events' = [k \in (DOMAIN events) \cup {key} |->
                  IF k = key
                  THEN Append(IF key \in DOMAIN events THEN events[key] ELSE <<>>, event)
                  ELSE events[k]]

\* Get(key): a copy of the key's sequence, empty and non-nil for an unknown key
Get(key) == Slice(FALSE, IF key \in DOMAIN events THEN events[key] ELSE <<>>)

\* Has(key)
Has(key) == key \in DOMAIN events /\ Len(events[key]) > 0

\* the fields that some event of evs gives a visible value other than nil
ValuedFields(evs) ==
    {f \in Fields : \E i \in DOMAIN evs :
        /\ f \in DOMAIN evs[i].Payload
        /\ ~evs[i].Payload[f].Hidden
        /\ evs[i].Payload[f].Data # Nil}

\* Clear(key): drop the key's entry
\* variant: Clear drops every key's history
ClearAll(key) == events' = <<>>

Clear(key) == events' = [k \in (DOMAIN events) \ {key} |-> events[k]]

(***************************************************************************)
(* Logger.Events                                                           *)
(***************************************************************************)
\* variant: only the first requested name is looked up
FieldSetFirstName(fields) == {fields[1]}

\* fieldSet := make(map[string]struct{}); for _, f := range fields { fieldSet[f] = struct{}{} }
FieldSet(fields) == {fields[i] : i \in DOMAIN fields}

\* hasField: some key of the payload is in fieldSet
HasField(e, fieldSet) == \E k \in DOMAIN e.Payload : k \in fieldSet

\* variant: the whole payload of a retained event is kept
FilterPayloadWhole(e, fieldSet) == e.Payload

\* the filtered payload: the entries of e.Payload whose key is in fieldSet
FilterPayload(e, fieldSet) ==
    [k \in {f \in DOMAIN e.Payload : f \in fieldSet} |-> e.Payload[k]]

\* variant: the Description is not copied into the retained event
RetainedNoDescription(e, fieldSet) ==
    Event(e.Timestamp, e.Action, e.Author, "", FilterPayload(e, fieldSet))

\* the event appended to `filtered`: the stored event's fields with the filtered payload
Retained(e, fieldSet) ==
    Event(e.Timestamp, e.Action, e.Author, e.Description, FilterPayload(e, fieldSet))

\* the loop over the stored events, appending the retained ones in order
RECURSIVE FilterEvents(_, _)
FilterEvents(evs, fieldSet) ==
    IF evs = <<>> THEN <<>>
    ELSE LET e == Head(evs)
             rest == FilterEvents(Tail(evs), fieldSet)
         IN IF ~HasField(e, fieldSet) THEN rest
            ELSE <<Retained(e, fieldSet)>> \o rest

\* variant: with no field names the copy is built by appending to a nil slice,
\* which stays nil for an empty history
EventsNilWhenEmpty(key, fields) ==
    LET evs == Get(key).elems
    IN IF Len(fields) = 0
       THEN Slice(evs = <<>>, evs)
       ELSE LET filtered == FilterEvents(evs, FieldSet(fields))
            IN Slice(filtered = <<>>, filtered)

\* Events(key, fields...): `var filtered []Event` stays nil when nothing is retained
Events(key, fields) ==
    LET evs == Get(key).elems
    IN IF Len(fields) = 0
       THEN Slice(FALSE, evs)
       ELSE LET filtered == FilterEvents(evs, FieldSet(fields))
            IN Slice(filtered = <<>>, filtered)

(***************************************************************************)
(* Logger.Logs                                                             *)
(***************************************************************************)
\* variant: a missing map entry reads as the empty string
StateGetEmptyString(state, field) == IF field \in DOMAIN state THEN state[field] ELSE ""

\* old := state[field]: a missing map entry reads as nil
StateGet(state, field) == IF field \in DOMAIN state THEN state[field] ELSE Nil

\* variant: From is not masked
FieldFromUnmasked(val, old) == old

\* from, to := old, val.Data; if val.Hidden { from = HideText; to = HideText }
FieldFrom(val, old) == IF val.Hidden THEN HideText ELSE old
FieldTo(val) == IF val.Hidden THEN HideText ELSE val.Data

\* if val.Hidden || old != val.Data   (|| short-circuits: a hidden value is never compared)
ComparePanics(val, old) == ~val.Hidden /\ GoPanics(old, val.Data)
Emits(val, old) == val.Hidden \/ ~GoEq(old, val.Data)

\* variant: a hidden write forgets the field's remembered value
StateSetForget(state, field, val) ==
    IF val.Hidden THEN [k \in (DOMAIN state) \ {field} |-> state[k]]
    ELSE [k \in (DOMAIN state) \cup {field} |-> IF k = field THEN val.Data ELSE state[k]]

\* variant: the state is updated with the Data of hidden values too
StateSetLeak(state, field, val) ==
    [k \in (DOMAIN state) \cup {field} |-> IF k = field THEN val.Data ELSE state[k]]

\* if !val.Hidden { state[field] = val.Data }
StateSet(state, field, val) ==
    IF val.Hidden THEN state
    ELSE [k \in (DOMAIN state) \cup {field} |-> IF k = field THEN val.Data ELSE state[k]]

\* variant: the loop over the payload stops after the first field it visits
LogsFieldsFirstOnly(payload, order, state, acc) ==
    IF order = <<>> THEN [panic |-> FALSE, fields |-> acc, state |-> state]
    ELSE LET field == Head(order)
             val == payload[field]
             old == StateGet(state, field)
         IN IF ComparePanics(val, old)
            THEN [panic |-> TRUE, fields |-> acc, state |-> state]
            ELSE IF Emits(val, old)
                 THEN [panic |-> FALSE,
                       fields |-> Append(acc, [Field |-> field, From |-> FieldFrom(val, old),
                                               To |-> FieldTo(val)]),
                       state |-> StateSet(state, field, val)]
                 ELSE [panic |-> FALSE, fields |-> acc, state |-> state]

\* for field, val := range e.Payload, visiting the fields in the sequence `order`
RECURSIVE LogsFields(_, _, _, _)
LogsFields(payload, order, state, acc) ==
    IF order = <<>> THEN [panic |-> FALSE, fields |-> acc, state |-> state]
    ELSE LET field == Head(order)
             val == payload[field]
             old == StateGet(state, field)
         IN IF ComparePanics(val, old)
            THEN [panic |-> TRUE, fields |-> acc, state |-> state]
            ELSE IF Emits(val, old)
                 THEN LogsFields(payload, Tail(order), StateSet(state, field, val),
                                 Append(acc, [Field |-> field, From |-> FieldFrom(val, old),
                                              To |-> FieldTo(val)]))
                 ELSE LogsFields(payload, Tail(order), state, acc)

\* the order in which one range loop visits the payload, given a permutation of all field names
RangeOrder(payload, perm) == SelectSeq(perm, LAMBDA f : f \in DOMAIN payload)

\* the iteration orders of a whole Logs call, one per event
RangeOrders(evs, perms) == [i \in DOMAIN evs |-> RangeOrder(evs[i].Payload, perms[i])]

\* for _, e := range events: one Change per event; a panic ends the call
RECURSIVE LogsLoop(_, _, _, _)
LogsLoop(evs, orders, state, result) ==
    IF evs = <<>> THEN [panic |-> FALSE, changes |-> result]
    ELSE LET e == Head(evs)
             r == LogsFields(e.Payload, Head(orders), state, <<>>)
         IN IF r.panic THEN [panic |-> TRUE, changes |-> <<>>]
            ELSE LogsLoop(Tail(evs), Tail(orders), r.state,
                          Append(result, [Fields |-> r.fields, Description |-> e.Description,
                                          Author |-> e.Author, Timestamp |-> e.Timestamp]))

\* Logs(key), with orders[i] the iteration order of the i-th event's payload map
Logs(key, orders) == LogsLoop(Get(key).elems, orders, <<>>, <<>>)

(***************************************************************************)
(* Logger write operations.                                                *)
(***************************************************************************)
\* what the caller passed to a write call
Call(op, action, author, description, payload) ==
    [op |-> op, action |-> action, author |-> author,
     description |-> description, payload |-> payload]

\* variant: author and description are swapped in the Event literal
LogChangeSwapped(key, action, author, description, payload) ==
    /\ Store(key, Event(now, action, description, author, payload))
    /\ UNCHANGED now

\* variant: a call with an empty payload stores nothing
LogChangeSkipEmpty(key, action, author, description, payload) ==
    IF payload = <<>> THEN UNCHANGED <<events, now>>
    ELSE Store(key, Event(now, action, author, description, payload)) /\ UNCHANGED now

\* LogChange: event := Event{Timestamp: time.Now(), ...}; l.storage.Store(key, event)
LogChange(key, action, author, description, payload) ==
    /\ Store(key, Event(now, action, author, description, payload))
    /\ UNCHANGED now

\* a direct call of LogChange by the caller
LogChangeCall(key, action, author, description, payload) ==
    /\ LogChange(key, action, author, description, payload)
    /\ written' = [written EXCEPT ![key] =
                      Append(@, Call("LogChange", action, author, description, payload))]
    /\ ret' = [op |-> "LogChange", key |-> key]
    /\ UNCHANGED <<cleared, heap, procs, bridge, fleet>>

CreateAction == ActionCreate
Create(key, author, description, payload) ==
    /\ LogChange(key, CreateAction, author, description, payload)
    /\ written' = [written EXCEPT ![key] =
                      Append(@, Call("Create", "", author, description, payload))]
    /\ ret' = [op |-> "Create", key |-> key]
    /\ UNCHANGED <<cleared, heap, procs, bridge, fleet>>

UpdateAction == ActionUpdate
Update(key, author, description, payload) ==
    /\ LogChange(key, UpdateAction, author, description, payload)
    /\ written' = [written EXCEPT ![key] =
                      Append(@, Call("Update", "", author, description, payload))]
    /\ ret' = [op |-> "Update", key |-> key]
    /\ UNCHANGED <<cleared, heap, procs, bridge, fleet>>

DeleteAction == ActionDelete
Delete(key, author, description, payload) ==
    /\ LogChange(key, DeleteAction, author, description, payload)
    /\ written' = [written EXCEPT ![key] =
                      Append(@, Call("Delete", "", author, description, payload))]
    /\ ret' = [op |-> "Delete", key |-> key]
    /\ UNCHANGED <<cleared, heap, procs, bridge, fleet>>

(***************************************************************************)
(* Calls that read, and Clear.                                             *)
(***************************************************************************)
EventsCall(key, fields) ==
    /\ ret' = [op |-> "Events", key |-> key, fields |-> fields, val |-> Events(key, fields)]
    /\ UNCHANGED <<events, now, written, cleared, heap, procs, bridge, fleet>>

\* every permutation of the field names: the orders a range over a map can take
FieldPerms == {<<"f", "g">>, <<"g", "f">>}

LogsCall(key, orders) ==
    /\ ret' = [op |-> "Logs", key |-> key, orders |-> orders, val |-> Logs(key, orders)]
    /\ UNCHANGED <<events, now, written, cleared, heap, procs, bridge, fleet>>

GetCall(key) ==
    /\ ret' = [op |-> "Get", key |-> key, val |-> Get(key)]
    /\ UNCHANGED <<events, now, written, cleared, heap, procs, bridge, fleet>>

HasCall(key) ==
    /\ ret' = [op |-> "Has", key |-> key, val |-> Has(key)]
    /\ UNCHANGED <<events, now, written, cleared, heap, procs, bridge, fleet>>

ClearCall(key) ==
    /\ Clear(key)
    /\ written' = [written EXCEPT ![key] = <<>>]
    /\ ret' = [op |-> "Clear", key |-> key]
    /\ UNCHANGED <<now, cleared, heap, procs, bridge, fleet>>

\* the clock advances between calls
Tick ==
    /\ now < MaxTime
    /\ now' = now + 1
    /\ UNCHANGED <<events, written, cleared, ret, heap, procs, bridge, fleet>>

(***************************************************************************)
(* Initial state: New() over a fresh NewInMemoryStorage().                 *)
(***************************************************************************)
\* no map object is shared with the caller and no goroutine runs beside the caller
NoHeap == maps = <<>> /\ refs = <<>> /\ held = [op |-> "none"]
NoProcs ==
    /\ pc = <<>> /\ loc = <<>> /\ done = <<>>
    /\ mu = [writer |-> "none", pending |-> "none", readers |-> {}]
\* no slog Handler has been constructed
NoBridge == hs = <<>> /\ sink = <<>>
NoFleet == stores = <<>> /\ loggers = <<>> /\ callCount = <<>>

Init ==
    /\ events = <<>>
    /\ now = 0
    /\ written = [k \in Keys |-> <<>>]
    /\ cleared = [k \in Keys |-> {}]
    /\ ret = [op |-> "New"]
    /\ NoHeap
    /\ NoProcs
    /\ NoBridge
    /\ NoFleet

RECURSIVE SumLen(_)
SumLen(S) == IF S = {} THEN 0
             ELSE LET k == CHOOSE x \in S : TRUE IN Len(Get(k).elems) + SumLen(S \ {k})
TotalEvents == SumLen(Keys)

(***************************************************************************)
(* Spec: the whole API on two keys, with small payloads.                   *)
(***************************************************************************)
ApiInputs ==
    { [author |-> "alice", description |-> "made", payload |-> [k \in {"f"} |-> PlainValue("a")]],
      [author |-> "bob", description |-> "gone", payload |-> <<>>] }
ApiActions == {"archive"}
ApiFieldLists == {<<>>, <<"f">>}

ApiCreate == /\ TotalEvents < MaxEvents
             /\ \E k \in Keys, in \in ApiInputs : Create(k, in.author, in.description, in.payload)
ApiUpdate == /\ TotalEvents < MaxEvents
             /\ \E k \in Keys, in \in ApiInputs : Update(k, in.author, in.description, in.payload)
ApiDelete == /\ TotalEvents < MaxEvents
             /\ \E k \in Keys, in \in ApiInputs : Delete(k, in.author, in.description, in.payload)
ApiLogChange == /\ TotalEvents < MaxEvents
                /\ \E k \in Keys, a \in ApiActions, in \in ApiInputs :
                      LogChangeCall(k, a, in.author, in.description, in.payload)
ApiEvents == \E k \in Keys, fs \in ApiFieldLists : EventsCall(k, fs)
ApiLogs == \E k \in Keys : \E perms \in [1..Len(Get(k).elems) -> FieldPerms] :
               LogsCall(k, RangeOrders(Get(k).elems, perms))
ApiGet == \E k \in Keys : GetCall(k)
ApiHas == \E k \in Keys : HasCall(k)
ApiClear == \E k \in Keys : ClearCall(k)

Next == \/ ApiCreate \/ ApiUpdate \/ ApiDelete \/ ApiLogChange
        \/ ApiEvents \/ ApiLogs \/ ApiGet \/ ApiHas \/ ApiClear \/ Tick

Spec == Init /\ [][Next]_vars

TypeOK ==
    /\ DOMAIN events \subseteq Keys
    /\ now \in 0..MaxTime
    /\ DOMAIN written = Keys

(***************************************************************************)
(* SpecLogs: one key, every kind of value written to field f, read by Logs.*)
(***************************************************************************)
LogsValuesF == {PlainValue(Nil), PlainValue("a"), PlainValue("b"), PlainValue(SliceX),
                HiddenValue, HiddenData("a")}
LogsValuesG == {PlainValue("a")}
LogsPayloads ==
    {<<>>}
    \cup {[k \in {"f"} |-> v] : v \in LogsValuesF}
    \cup {[k \in {"g"} |-> v] : v \in LogsValuesG}
    \cup {[k \in {"f", "g"} |-> IF k = "f" THEN vf ELSE vg] : vf \in LogsValuesF, vg \in LogsValuesG}

LogsWrite == /\ Len(Get("k1").elems) < MaxLogEvents
             /\ \E p \in LogsPayloads : Update("k1", "alice", "edit", p)
LogsRead == \E perms \in [1..Len(Get("k1").elems) -> FieldPerms] :
               LogsCall("k1", RangeOrders(Get("k1").elems, perms))

NextLogs == LogsWrite \/ LogsRead

SpecLogs == Init /\ [][NextLogs]_vars

(***************************************************************************)
(* SpecReads: the histories of SpecLogs, read by Logs and by Events and    *)
(* removed by Clear.                                                       *)
(***************************************************************************)
ReadsFieldLists == {<<>>, <<"g">>, <<"g", "f">>}
\* the description numbers the events of the key
ReadsWrite == /\ Len(Get("k1").elems) < MaxReadEvents
              /\ \E p \in LogsPayloads :
                    Update("k1", "alice", ToString(Len(Get("k1").elems) + 1), p)
ReadsEvents == \E fs \in ReadsFieldLists : EventsCall("k1", fs)
\* storage.Clear("k1"), the caller noting which fields had a value
ReadsClear ==
    /\ Clear("k1")
    /\ written' = [written EXCEPT !["k1"] = <<>>]
    /\ cleared' = [cleared EXCEPT !["k1"] = ValuedFields(Get("k1").elems)]
    /\ ret' = [op |-> "Clear", key |-> "k1"]
    /\ UNCHANGED <<now, heap, procs, bridge, fleet>>

ReadsGet == GetCall("k1")

NextReads == ReadsWrite \/ LogsRead \/ ReadsEvents \/ ReadsClear \/ ReadsGet

SpecReads == Init /\ [][NextReads]_vars

(***************************************************************************)
(* SpecEvents: one key, payloads over two fields, read by Events with      *)
(* every list of requested names.                                          *)
(***************************************************************************)
FilterPayloads ==
    { <<>>,
      [k \in {"f"} |-> PlainValue("a")],
      [k \in {"g"} |-> HiddenValue],
      [k \in {"f", "g"} |-> IF k = "f" THEN PlainValue("b") ELSE PlainValue("a")] }
FilterFieldLists ==
    {<<>>, <<"f">>, <<"g">>, <<"h">>, <<"f", "g">>, <<"g", "f">>, <<"f", "f">>, <<"h", "g">>}

FilterCreate == /\ Len(Get("k1").elems) < MaxFilterEvents
                /\ \E p \in FilterPayloads : Create("k1", "alice", "made", p)
FilterDeletePayloads == { <<>>, [k \in {"g"} |-> HiddenValue] }
FilterDelete == /\ Len(Get("k1").elems) < MaxFilterEvents
                /\ \E p \in FilterDeletePayloads : Delete("k1", "bob", "gone", p)
FilterRead == \E fs \in FilterFieldLists : EventsCall("k1", fs)

NextEvents == FilterCreate \/ FilterDelete \/ FilterRead \/ Tick

SpecEvents == Init /\ [][NextEvents]_vars

(***************************************************************************)
(* SpecAlias: one caller that keeps references.  An Event holds its        *)
(* Payload as a Go map, that is, a reference: LogChange puts the caller's  *)
(* map into the Event, appending the Event or copying a slice of Events    *)
(* copies the reference, not the entries.  events keeps each stored event  *)
(* with the entries its map has now, refs keeps which map object it is;    *)
(* a change made to a map object shows in every Event that refers to it.   *)
(***************************************************************************)
MapIds == {"m1", "m2"}
NilMap == "nil"
AliasContents ==
    { <<>>, [k \in {"f"} |-> PlainValue("a")], [k \in {"f"} |-> PlainValue("b")] }

\* an Event seen through the reference it holds
Deref(ev, m, ms) == IF m \in DOMAIN ms THEN [ev EXCEPT !.Payload = ms[m]] ELSE ev
DerefSeq(evs, rs, ms) == [i \in DOMAIN evs |-> Deref(evs[i], rs[i], ms)]

\* variant: Get returns the storage's own sequence
GetReturnsOwn == FALSE

\* Get returns a copy of the key's sequence
GetCopies == TRUE

\* Events without field names: result := make([]Event, len(events)); copy(result, events)
EventsCopies == TRUE

\* the sequence the caller sees through what it holds
View(h) == IF h.live THEN (IF h.key \in DOMAIN events THEN events[h.key] ELSE <<>>) ELSE h.elems

\* payload[f] = v or delete(payload, f) on the map object m, through any reference to it
SetMap(m, c) ==
    /\ maps' = [maps EXCEPT ![m] = c]
    /\ events' = [k \in DOMAIN events |-> DerefSeq(events[k], refs[k], maps')]
    /\ held' = IF held.op = "none" THEN held
               ELSE [held EXCEPT !.elems = DerefSeq(held.elems, held.refs, maps')]

\* logger.Create(key, "alice", "made", payload) with payload the caller's map object m
AliasCreate(key, m) ==
    /\ LogChange(key, CreateAction, "alice", "made", maps[m])
    /\ refs' = [refs EXCEPT ![key] = Append(@, m)]
    /\ written' = [written EXCEPT ![key] = Append(@, Call("Create", "", "alice", "made", maps[m]))]
    /\ ret' = [op |-> "Create", key |-> key, map |-> m]
    /\ UNCHANGED <<cleared, maps, held, procs, bridge, fleet>>

\* evs := logger.Events(key)
AliasEvents(key) ==
    /\ ret' = [op |-> "Events", key |-> key, fields |-> <<>>]
    /\ held' = [op |-> "Events", key |-> key, elems |-> Events(key, <<>>).elems,
                refs |-> refs[key], live |-> ~EventsCopies /\ ~GetCopies]
    /\ UNCHANGED <<events, now, written, cleared, maps, refs, procs, bridge, fleet>>

\* evs := storage.Get(key)
AliasGet(key) ==
    /\ ret' = [op |-> "Get", key |-> key]
    /\ held' = [op |-> "Get", key |-> key, elems |-> Get(key).elems,
                refs |-> refs[key], live |-> ~GetCopies]
    /\ UNCHANGED <<events, now, written, cleared, maps, refs, procs, bridge, fleet>>

\* storage.Clear(key)
AliasClear(key) ==
    /\ Clear(key)
    /\ refs' = [refs EXCEPT ![key] = <<>>]
    /\ written' = [written EXCEPT ![key] = <<>>]
    /\ ret' = [op |-> "Clear", key |-> key]
    /\ UNCHANGED <<now, cleared, maps, held, procs, bridge, fleet>>

\* evs[i] = Event{}: the caller replaces an element of the sequence it holds
ZeroEvent == Event(0, "", "", "", <<>>)
AliasReplace(i) ==
    /\ held.op # "none" /\ i \in DOMAIN held.elems
    /\ held' = [held EXCEPT !.elems[i] = ZeroEvent, !.refs[i] = NilMap]
    /\ IF held.live /\ held.key \in DOMAIN events /\ i \in DOMAIN events[held.key]
          THEN /\ events' = [events EXCEPT ![held.key][i] = ZeroEvent]
               /\ refs' = [refs EXCEPT ![held.key][i] = NilMap]
          ELSE UNCHANGED <<events, refs>>
    /\ ret' = [op |-> "Replace", key |-> held.key, index |-> i]
    /\ UNCHANGED <<now, written, cleared, maps, procs, bridge, fleet>>

\* evs[i].Payload["f"] = v, or delete(evs[i].Payload, "f"), on a held event
AliasSetReturned(i, c) ==
    /\ held.op # "none" /\ i \in DOMAIN held.elems
    /\ held.refs[i] \in MapIds
    /\ c # maps[held.refs[i]]
    /\ SetMap(held.refs[i], c)
    /\ ret' = [op |-> "SetReturned", key |-> held.key, index |-> i]
    /\ UNCHANGED <<now, written, cleared, refs, procs, bridge, fleet>>

\* payload["f"] = v, or delete(payload, "f"), on a map object the caller made
AliasSetPassed(m, c) ==
    /\ c # maps[m]
    /\ SetMap(m, c)
    /\ ret' = [op |-> "SetPassed", map |-> m]
    /\ UNCHANGED <<now, written, cleared, refs, procs, bridge, fleet>>

InitAlias ==
    /\ events = <<>>
    /\ now = 0
    /\ written = [k \in Keys |-> <<>>]
    /\ cleared = [k \in Keys |-> {}]
    /\ ret = [op |-> "New"]
    /\ maps = [m \in MapIds |-> <<>>]
    /\ refs = [k \in Keys |-> <<>>]
    /\ held = [op |-> "none"]
    /\ NoProcs
    /\ NoBridge
    /\ NoFleet

AliasKeys == {"k1"}
AliasWrite == /\ TotalEvents < MaxAliasEvents
              /\ \E k \in AliasKeys, m \in MapIds : AliasCreate(k, m)
AliasReadEvents == \E k \in AliasKeys : AliasEvents(k)
AliasReadGet == \E k \in AliasKeys : AliasGet(k)
AliasDrop == \E k \in AliasKeys : AliasClear(k)
AliasReplaceElement == \E i \in 1..MaxAliasEvents : AliasReplace(i)
AliasMutateReturned == \E i \in 1..MaxAliasEvents, c \in AliasContents : AliasSetReturned(i, c)
AliasMutatePassed == \E m \in MapIds, c \in AliasContents : AliasSetPassed(m, c)

NextAlias == \/ AliasWrite \/ AliasReadEvents \/ AliasReadGet \/ AliasDrop
             \/ AliasReplaceElement \/ AliasMutateReturned \/ AliasMutatePassed

SpecAlias == InitAlias /\ [][NextAlias]_vars

(***************************************************************************)
(* SpecConc: goroutines calling the Logger and the storage at once.  The   *)
(* storage guards its map with a sync.RWMutex: Store and Clear take        *)
(* Lock, Get and Has take RLock.  A Lock call made while readers are       *)
(* inside waits for them and keeps new readers out meanwhile.  Inside its  *)
(* critical section Store reads the key's sequence, writes the new slot    *)
(* (the sequence then ends in a half-written Event) and completes it.      *)
(* written keeps, per key, the events in the order the Store calls were    *)
(* serialized since the key's last Clear.                                  *)
(***************************************************************************)
Writers == {"w1", "w2"}
Readers == {"r1", "r2"}
Procs == Writers \cup Readers

SeqOf(store, k) == IF k \in DOMAIN store THEN store[k] ELSE <<>>
Put(store, k, evs) == [x \in (DOMAIN store) \cup {k} |-> IF x = k THEN evs ELSE store[x]]

\* variant: Lock does not wait for another writer
MayLockAnyway == TRUE

\* mu.Lock() goes on when no other writer holds or awaits the lock
MayLock == mu.writer = "none" /\ mu.pending = "none"

\* variant: RLock does not wait for a writer
MayRLockAnyway == TRUE

\* mu.RLock() goes on when no writer holds or awaits the lock
MayRLock == mu.writer = "none" /\ mu.pending = "none"

\* variant: the Timestamp is not the reading of the clock at the call
LogChangeStartBackdated(p, key) ==
    /\ pc[p] = "idle" /\ loc[p].n < MaxCalls
    /\ loc' = [loc EXCEPT ![p] = [op |-> "Store", key |-> key, n |-> loc[p].n + 1,
                                  event |-> Event(MaxTime - now, CreateAction, p, ToString(loc[p].n + 1), <<>>)]]
    /\ pc' = [pc EXCEPT ![p] = "lock"]
    /\ UNCHANGED <<events, now, written, cleared, ret, heap, mu, done, bridge, fleet>>

\* LogChange: event := Event{Timestamp: time.Now(), ...}, then l.storage.Store(key, event)
LogChangeStart(p, key) ==
    /\ pc[p] = "idle" /\ loc[p].n < MaxCalls
    /\ loc' = [loc EXCEPT ![p] = [op |-> "Store", key |-> key, n |-> loc[p].n + 1,
                                  event |-> Event(now, CreateAction, p, ToString(loc[p].n + 1), <<>>)]]
    /\ pc' = [pc EXCEPT ![p] = "lock"]
    /\ UNCHANGED <<events, now, written, cleared, ret, heap, mu, done, bridge, fleet>>

\* storage.Clear(key) is called
ClearStart(p, key) ==
    /\ pc[p] = "idle" /\ loc[p].n < MaxCalls
    /\ loc' = [loc EXCEPT ![p] = [op |-> "Clear", key |-> key, n |-> loc[p].n + 1]]
    /\ pc' = [pc EXCEPT ![p] = "lock"]
    /\ UNCHANGED <<events, now, written, cleared, ret, heap, mu, done, bridge, fleet>>

\* s.mu.Lock(): enter at once, or announce the writer and wait for the readers to leave
Lock(p) ==
    /\ pc[p] = "lock" /\ MayLock
    /\ IF mu.readers = {}
          THEN mu' = [mu EXCEPT !.writer = p] /\ pc' = [pc EXCEPT ![p] = "cs"]
          ELSE mu' = [mu EXCEPT !.pending = p] /\ pc' = [pc EXCEPT ![p] = "wait"]
    /\ UNCHANGED <<events, now, written, cleared, ret, heap, loc, done, bridge, fleet>>

\* variant: the announced writer does not wait for the readers to leave
LockEnterEarly(p) ==
    /\ pc[p] = "wait"
    /\ mu' = [mu EXCEPT !.writer = p, !.pending = "none"]
    /\ pc' = [pc EXCEPT ![p] = "cs"]
    /\ UNCHANGED <<events, now, written, cleared, ret, heap, loc, done, bridge, fleet>>

\* s.mu.Lock() returns once the last reader has left
LockEnter(p) ==
    /\ pc[p] = "wait" /\ mu.readers = {}
    /\ mu' = [mu EXCEPT !.writer = p, !.pending = "none"]
    /\ pc' = [pc EXCEPT ![p] = "cs"]
    /\ UNCHANGED <<events, now, written, cleared, ret, heap, loc, done, bridge, fleet>>

\* s.events[key] = append(s.events[key], event): the map is read and the slot written
StoreBegin(p) ==
    /\ pc[p] = "cs" /\ loc[p].op = "Store"
    /\ loc' = [loc EXCEPT ![p] = [op |-> "Store", key |-> loc[p].key, n |-> loc[p].n,
                                  event |-> loc[p].event, old |-> events]]
    /\ events' = Put(events, loc[p].key, Append(SeqOf(events, loc[p].key), ZeroEvent))
    /\ pc' = [pc EXCEPT ![p] = "cs2"]
    /\ UNCHANGED <<now, written, cleared, ret, heap, mu, done, bridge, fleet>>

\* the map entry is written, s.mu.Unlock() (deferred), Store and LogChange return
StoreEnd(p) ==
    /\ pc[p] = "cs2"
    /\ events' = Put(loc[p].old, loc[p].key, Append(SeqOf(loc[p].old, loc[p].key), loc[p].event))
    /\ written' = [written EXCEPT ![loc[p].key] = Append(@, loc[p].event)]
    /\ done' = [done EXCEPT ![p] = Append(@, [key |-> loc[p].key, event |-> loc[p].event])]
    /\ mu' = [mu EXCEPT !.writer = "none"]
    /\ pc' = [pc EXCEPT ![p] = "idle"]
    /\ loc' = [loc EXCEPT ![p] = [op |-> "none", n |-> loc[p].n]]
    /\ UNCHANGED <<now, ret, cleared, heap, bridge, fleet>>

\* delete(s.events, key), s.mu.Unlock(), Clear returns
ClearDo(p) ==
    /\ pc[p] = "cs" /\ loc[p].op = "Clear"
    /\ Clear(loc[p].key)
    /\ written' = [written EXCEPT ![loc[p].key] = <<>>]
    /\ done' = [w \in Writers |-> SelectSeq(done[w], LAMBDA d : d.key # loc[p].key)]
    /\ mu' = [mu EXCEPT !.writer = "none"]
    /\ pc' = [pc EXCEPT ![p] = "idle"]
    /\ loc' = [loc EXCEPT ![p] = [op |-> "none", n |-> loc[p].n]]
    /\ UNCHANGED <<now, ret, cleared, heap, bridge, fleet>>

\* storage.Get(key) or storage.Has(key) is called
ReadStart(p, op, key) ==
    /\ pc[p] = "idle"
    /\ loc' = [loc EXCEPT ![p] = [op |-> op, key |-> key]]
    /\ pc' = [pc EXCEPT ![p] = "rlock"]
    /\ UNCHANGED <<events, now, written, cleared, ret, heap, mu, done, bridge, fleet>>

\* s.mu.RLock()
RLock(p) ==
    /\ pc[p] = "rlock" /\ MayRLock
    /\ mu' = [mu EXCEPT !.readers = @ \cup {p}]
    /\ pc' = [pc EXCEPT ![p] = "rcs"]
    /\ UNCHANGED <<events, now, written, cleared, ret, heap, loc, done, bridge, fleet>>

\* what the call of reader p returns when it reads now
ReadResult(p) == IF loc[p].op = "Get" THEN Get(loc[p].key) ELSE Has(loc[p].key)

\* the read under the lock (it returns ReadResult), s.mu.RUnlock() (deferred), the call returns
ReadDo(p) ==
    /\ pc[p] = "rcs"
    /\ loc' = [loc EXCEPT ![p] = [op |-> "none"]]
    /\ mu' = [mu EXCEPT !.readers = @ \ {p}]
    /\ pc' = [pc EXCEPT ![p] = "idle"]
    /\ UNCHANGED <<events, now, written, cleared, ret, heap, done, bridge, fleet>>

InitConc ==
    /\ events = <<>>
    /\ now = 0
    /\ written = [k \in Keys |-> <<>>]
    /\ cleared = [k \in Keys |-> {}]
    /\ ret = [op |-> "New"]
    /\ NoHeap
    /\ pc = [p \in Procs |-> "idle"]
    /\ loc = [p \in Procs |-> IF p \in Writers THEN [op |-> "none", n |-> 0] ELSE [op |-> "none"]]
    /\ mu = [writer |-> "none", pending |-> "none", readers |-> {}]
    /\ done = [w \in Writers |-> <<>>]
    /\ NoBridge
    /\ NoFleet

ConcWrite == \E p \in Writers, k \in Keys : LogChangeStart(p, k)
ConcClear == \E p \in Writers, k \in Keys : ClearStart(p, k)
ConcLock == \E p \in Writers : Lock(p)
ConcLockEnter == \E p \in Writers : LockEnter(p)
ConcStoreBegin == \E p \in Writers : StoreBegin(p)
ConcStoreEnd == \E p \in Writers : StoreEnd(p)
ConcClearDo == \E p \in Writers : ClearDo(p)
ConcRead == \E p \in Readers, op \in {"Get", "Has"}, k \in Keys : ReadStart(p, op, k)
ConcRLock == \E p \in Readers : RLock(p)
ConcReadDo == \E p \in Readers : ReadDo(p)

NextConc == \/ ConcWrite \/ ConcClear \/ ConcLock \/ ConcLockEnter \/ ConcStoreBegin
            \/ ConcStoreEnd \/ ConcClearDo \/ ConcRead \/ ConcRLock \/ ConcReadDo

SpecConc == InitConc /\ [][NextConc]_vars

(***************************************************************************)
(* SpecLive: the goroutines of SpecConc on one key, under fair scheduling: *)
(* a goroutine that can take its next step inside a call takes it in the   *)
(* end.  Nothing obliges a goroutine to start a call.                      *)
(***************************************************************************)
LiveWrite == \E p \in Writers : LogChangeStart(p, "k1")
LiveClear == \E p \in Writers : ClearStart(p, "k1")
LiveRead == \E p \in Readers, op \in {"Get", "Has"} : ReadStart(p, op, "k1")

NextLive == \/ LiveWrite \/ LiveClear \/ ConcLock \/ ConcLockEnter \/ ConcStoreBegin
            \/ ConcStoreEnd \/ ConcClearDo \/ LiveRead \/ ConcRLock \/ ConcReadDo

LiveFairness ==
    /\ \A p \in Writers :
          /\ WF_vars(Lock(p)) /\ WF_vars(LockEnter(p))
          /\ WF_vars(StoreBegin(p)) /\ WF_vars(StoreEnd(p)) /\ WF_vars(ClearDo(p))
    /\ \A p \in Readers : WF_vars(RLock(p)) /\ WF_vars(ReadDo(p))

SpecLive == InitConc /\ [][NextLive]_vars /\ LiveFairness

(***************************************************************************)
(* SpecRace: the writers of SpecConc call LogChange while the clock        *)
(* advances; a writer reads the clock when it builds the event, before it  *)
(* asks for the storage's lock.                                            *)
(***************************************************************************)
RaceTick ==
    /\ now < MaxTime
    /\ now' = now + 1
    /\ UNCHANGED <<events, written, cleared, ret, heap, procs, bridge, fleet>>

NextRace == ConcWrite \/ ConcLock \/ ConcStoreBegin \/ ConcStoreEnd \/ RaceTick

SpecRace == InitConc /\ [][NextRace]_vars

(***************************************************************************)
(* The slog adapter (package slog): a Handler turns a slog.Record into one *)
(* LogChange call.  An attribute is a pair of a key and a value; the       *)
(* values of the model are strings, so Value.String() and Value.Any() give *)
(* the value itself.                                                       *)
(***************************************************************************)
AttrEntity == "entity"
AttrAction == "action"
AttrAuthor == "author"
AttrUser == "user"
LevelDebug == 0 - 4
LevelInfo == 0
Attr(k, v) == [Key |-> k, Value |-> v]
Record(msg, level, attrs) == [Message |-> msg, Level |-> level, Attrs |-> attrs]

\* the index of the first attribute whose key is in names, 0 when there is none
FirstAttr(attrs, names) ==
    IF \E i \in DOMAIN attrs : attrs[i].Key \in names
      THEN CHOOSE i \in DOMAIN attrs :
              /\ attrs[i].Key \in names
              /\ \A j \in 1..(i - 1) : attrs[j].Key \notin names
      ELSE 0

\* AttrExtractor(key): the value of the first attribute named key
AttrExtractor(key, attrs) ==
    LET i == FirstAttr(attrs, {key})
    IN IF i > 0 THEN [key |-> attrs[i].Value, ok |-> TRUE] ELSE [key |-> "", ok |-> FALSE]

\* variant: the text of the action attribute is taken as it is
DefaultActionExtractorRaw(attrs) ==
    LET i == FirstAttr(attrs, {AttrAction})
    IN IF i = 0 THEN ActionCreate ELSE attrs[i].Value

\* DefaultActionExtractor: the first action attribute decides, by a switch on its text
DefaultActionExtractor(attrs) ==
    LET i == FirstAttr(attrs, {AttrAction})
    IN IF i = 0 THEN ActionCreate
       ELSE CASE attrs[i].Value = "create" -> ActionCreate
              [] attrs[i].Value = "update" -> ActionUpdate
              [] attrs[i].Value = "delete" -> ActionDelete
              [] OTHER -> ActionCreate

\* variant: only the attribute named author counts
DefaultAuthorExtractorAuthorOnly(attrs) ==
    LET i == FirstAttr(attrs, {AttrAuthor})
    IN IF i > 0 THEN attrs[i].Value ELSE "system"

\* DefaultAuthorExtractor: the first attribute named author or user, else "system"
DefaultAuthorExtractor(attrs) ==
    LET i == FirstAttr(attrs, {AttrAuthor, AttrUser})
    IN IF i > 0 THEN attrs[i].Value ELSE "system"

\* DefaultPayloadExtractor: every attribute but the reserved keys; a later one overwrites
ReservedKeys == {AttrEntity, AttrAction, AttrAuthor, AttrUser}
DefaultPayloadExtractor(attrs) ==
    LET kept == {i \in DOMAIN attrs : attrs[i].Key \notin ReservedKeys}
        last(k) == CHOOSE i \in kept : attrs[i].Key = k /\ \A j \in kept : attrs[j].Key = k => j <= i
    IN [k \in {attrs[i].Key : i \in kept} |-> PlainValue(attrs[last(k)].Value)]

\* variant: a filter that lets every record through
ShouldAuditAlways(record) == TRUE

\* opts.ShouldAudit of the tests: record.Level >= slog.LevelInfo
ShouldAudit(record) == record.Level >= LevelInfo

\* the options NewHandler is given: KeyExtractor is "nil" or the name passed to
\* AttrExtractor, ShouldAudit is "nil" or "info", Handler tells whether there is an
\* underlying slog.Handler
Options(keyExtractor, shouldAudit, handler) ==
    [KeyExtractor |-> keyExtractor, ShouldAudit |-> shouldAudit, Handler |-> handler]

\* variant: construction without the check of opts.KeyExtractor
NewHandlerNoCheck(opts) ==
    /\ hs' = Append(hs, [opts |-> opts, handler |-> opts.Handler, attrs |-> <<>>])
    /\ ret' = [op |-> "NewHandler", opts |-> opts, panic |-> FALSE]
    /\ UNCHANGED <<events, now, written, cleared, heap, procs, sink, fleet>>

\* NewHandler: panic("slog: KeyExtractor is required"), or the Handler with the
\* default extractors and no attributes
NewHandler(opts) ==
    /\ IF opts.KeyExtractor = "nil"
          THEN /\ ret' = [op |-> "NewHandler", opts |-> opts, panic |-> TRUE]
               /\ UNCHANGED hs
          ELSE /\ hs' = Append(hs, [opts |-> opts, handler |-> opts.Handler, attrs |-> <<>>])
               /\ ret' = [op |-> "NewHandler", opts |-> opts, panic |-> FALSE]
    /\ UNCHANGED <<events, now, written, cleared, heap, procs, sink, fleet>>

\* variant: the new attributes come before the parent's
WithAttrsInFront(i, attrs) ==
    /\ hs' = Append(hs, [hs[i] EXCEPT !.attrs = attrs \o hs[i].attrs])
    /\ ret' = [op |-> "WithAttrs", h |-> i, attrs |-> attrs]
    /\ UNCHANGED <<events, now, written, cleared, heap, procs, sink, fleet>>

\* WithAttrs: a copy of the Handler with the attributes appended
WithAttrs(i, attrs) ==
    /\ hs' = Append(hs, [hs[i] EXCEPT !.attrs = hs[i].attrs \o attrs])
    /\ ret' = [op |-> "WithAttrs", h |-> i, attrs |-> attrs]
    /\ UNCHANGED <<events, now, written, cleared, heap, procs, sink, fleet>>

\* variant: a record without a key is reported as an error
HandleOutcomeKeyError(h, record, derr) ==
    LET allAttrs == h.attrs \o record.Attrs
        kr == AttrExtractor(h.opts.KeyExtractor, allAttrs)
        skip(err, keyCalled) ==
            [err |-> err, keyCalled |-> keyCalled, audited |-> FALSE]
    IN IF h.handler /\ derr # "nil" THEN skip(derr, FALSE)
       ELSE IF h.opts.ShouldAudit # "nil" /\ ~ShouldAudit(record) THEN skip("nil", FALSE)
       ELSE IF ~kr.ok THEN skip("no key", TRUE)
       ELSE [err |-> "nil", keyCalled |-> TRUE, audited |-> TRUE,
             key |-> kr.key,
             action |-> DefaultActionExtractor(allAttrs),
             author |-> DefaultAuthorExtractor(allAttrs),
             payload |-> DefaultPayloadExtractor(allAttrs)]

\* what Handle does with a record: derr is what the underlying handler returns
HandleOutcome(h, record, derr) ==
    LET allAttrs == h.attrs \o record.Attrs
        kr == AttrExtractor(h.opts.KeyExtractor, allAttrs)
        skip(err, keyCalled) ==
            [err |-> err, keyCalled |-> keyCalled, audited |-> FALSE]
    IN IF h.handler /\ derr # "nil" THEN skip(derr, FALSE)
       ELSE IF h.opts.ShouldAudit # "nil" /\ ~ShouldAudit(record) THEN skip("nil", FALSE)
       ELSE IF ~kr.ok THEN skip("nil", TRUE)
       ELSE [err |-> "nil", keyCalled |-> TRUE, audited |-> TRUE,
             key |-> kr.key,
             action |-> DefaultActionExtractor(allAttrs),
             author |-> DefaultAuthorExtractor(allAttrs),
             payload |-> DefaultPayloadExtractor(allAttrs)]

\* Handler.Handle(ctx, record)
Handle(i, record, derr) ==
    LET h == hs[i]
        out == HandleOutcome(h, record, derr)
    IN /\ sink' = IF h.handler THEN Append(sink, [record |-> record, attrs |-> h.attrs]) ELSE sink
       /\ IF out.audited
             THEN /\ LogChange(out.key, out.action, out.author, record.Message, out.payload)
                  /\ written' = [written EXCEPT ![out.key] =
                         Append(@, Call("LogChange", out.action, out.author,
                                        record.Message, out.payload))]
             ELSE UNCHANGED <<events, now, written>>
       /\ ret' = [op |-> "Handle", h |-> i, record |-> record, derr |-> derr, out |-> out]
       /\ UNCHANGED <<cleared, heap, procs, hs, fleet>>

(***************************************************************************)
(* SpecSlog: Handlers are constructed and derived, and handle records.     *)
(***************************************************************************)
SlogOptions ==
    { Options("nil", "nil", FALSE),
      Options(AttrEntity, "nil", FALSE),
      Options(AttrEntity, "info", TRUE),
      Options("id", "nil", TRUE) }
SlogAttrLists ==
    { <<>>,
      <<Attr("f", "a")>>,
      <<Attr(AttrEntity, "k1"), Attr("f", "a")>>,
      <<Attr(AttrEntity, "k1"), Attr(AttrAction, "update"), Attr(AttrAuthor, "alice"), Attr("f", "b")>>,
      <<Attr(AttrEntity, ""), Attr(AttrAction, "archive"), Attr(AttrUser, "bob"), Attr(AttrAuthor, "alice")>>,
      <<Attr("id", "k1"), Attr(AttrEntity, ""), Attr(AttrAction, "delete"), Attr(AttrAction, "update")>> }
SlogRecords ==
    {Record("saved", LevelInfo, a) : a \in SlogAttrLists}
       \cup {Record("saved", LevelDebug, <<Attr(AttrEntity, "k1"), Attr("f", "a")>>)}
SlogHandlerAttrs == { <<Attr(AttrAuthor, "carol"), Attr("g", "a")>> }

SlogNew == /\ Len(hs) < MaxHandlers
           /\ \E opts \in SlogOptions : NewHandler(opts)
SlogWithAttrs == /\ Len(hs) < MaxHandlers
                 /\ \E i \in DOMAIN hs, attrs \in SlogHandlerAttrs : WithAttrs(i, attrs)
SlogHandle == /\ TotalEvents + Len(sink) < MaxRecords
              /\ \E i \in DOMAIN hs, record \in SlogRecords, derr \in {"nil", "failed"} :
                    Handle(i, record, derr)

NextSlog == SlogNew \/ SlogWithAttrs \/ SlogHandle

SpecSlog == Init /\ [][NextSlog]_vars

(***************************************************************************)
(* SpecDerive: one Handler is constructed, Handlers are derived from it    *)
(* and from one another with WithAttrs, and all of them handle records.    *)
(***************************************************************************)
DeriveOptions == { Options(AttrEntity, "nil", TRUE) }
DeriveAttrs ==
    { <<Attr(AttrEntity, ""), Attr(AttrAction, "delete")>>,
      <<Attr(AttrAuthor, "carol"), Attr(AttrEntity, "k1"), Attr(AttrAction, "update")>> }
DeriveRecords ==
    { Record("saved", LevelInfo, <<>>),
      Record("saved", LevelInfo,
             <<Attr(AttrEntity, "k1"), Attr(AttrAction, "update"), Attr(AttrAuthor, "alice"), Attr("f", "b")>>),
      Record("saved", LevelInfo,
             <<Attr(AttrEntity, ""), Attr(AttrAction, "archive"), Attr(AttrUser, "bob")>>) }

DeriveNew == /\ hs = <<>>
             /\ \E opts \in DeriveOptions : NewHandler(opts)
DeriveWithAttrs == /\ Len(hs) < MaxDerived
                   /\ \E i \in DOMAIN hs, attrs \in DeriveAttrs : WithAttrs(i, attrs)
DeriveHandle == /\ TotalEvents + Len(sink) < MaxRecords
                /\ \E i \in DOMAIN hs, record \in DeriveRecords, derr \in {"nil", "failed"} :
                      Handle(i, record, derr)

NextDerive == DeriveNew \/ DeriveWithAttrs \/ DeriveHandle

SpecDerive == Init /\ [][NextDerive]_vars

(***************************************************************************)
(* Several Loggers and Storages: New(opts...) and WithStorage.  A Storage  *)
(* counts the calls of its methods, as the mockStorage of the tests does.  *)
(***************************************************************************)
NoCalls == [Store |-> 0, Get |-> 0, Has |-> 0, Clear |-> 0]

\* newMockStorage(): a Storage the caller makes, to pass it to WithStorage
NewStorage ==
    /\ stores' = Append(stores, [custom |-> TRUE, events |-> <<>>])
    /\ callCount' = Append(callCount, NoCalls)
    /\ ret' = [op |-> "NewStorage", storage |-> Len(stores) + 1]
    /\ UNCHANGED <<events, now, written, cleared, heap, procs, bridge, loggers>>

\* variant: without options the Logger holds one Storage shared by the package
NewSharedDefault(opts) ==
    LET defaults == {i \in DOMAIN stores : ~stores[i].custom}
        shared == IF defaults = {} THEN Len(stores) + 1
                  ELSE CHOOSE i \in defaults : \A j \in defaults : i <= j
    IN /\ stores' = Append(stores, [custom |-> FALSE, events |-> <<>>])
       /\ callCount' = Append(callCount, NoCalls)
       /\ loggers' = Append(loggers,
             [storage |-> IF opts = <<>> THEN shared ELSE opts[Len(opts)]])
       /\ ret' = [op |-> "NewLogger", opts |-> opts, logger |-> Len(loggers) + 1]
       /\ UNCHANGED <<events, now, written, cleared, heap, procs, bridge>>

\* New(opts...): l.storage is a new in-memory storage, then every option is applied
\* in order; opts[i] is the Storage passed to the i-th WithStorage
New(opts) ==
    /\ stores' = Append(stores, [custom |-> FALSE, events |-> <<>>])
    /\ callCount' = Append(callCount, NoCalls)
    /\ loggers' = Append(loggers,
          [storage |-> IF opts = <<>> THEN Len(stores) + 1 ELSE opts[Len(opts)]])
    /\ ret' = [op |-> "NewLogger", opts |-> opts, logger |-> Len(loggers) + 1]
    /\ UNCHANGED <<events, now, written, cleared, heap, procs, bridge>>

\* Store, Get and Clear of the Storage s
StoreIn(s, key, event) ==
    /\ stores' = [stores EXCEPT ![s].events = Put(@, key, Append(SeqOf(@, key), event))]
    /\ callCount' = [callCount EXCEPT ![s].Store = @ + 1]
GetFrom(s, key) == Slice(FALSE, SeqOf(stores[s].events, key))
ClearIn(s, key) ==
    /\ stores' = [stores EXCEPT ![s].events = [k \in (DOMAIN @) \ {key} |-> @[k]]]
    /\ callCount' = [callCount EXCEPT ![s].Clear = @ + 1]

\* l.LogChange(key, action, author, description, payload)
LoggerLogChange(l, key, action, author, description, payload) ==
    /\ StoreIn(loggers[l].storage, key, Event(now, action, author, description, payload))
    /\ ret' = [op |-> "LogChange", logger |-> l, key |-> key]
    /\ UNCHANGED <<events, now, written, cleared, heap, procs, bridge, loggers>>

\* l.Events(key, fields...)
LoggerEvents(l, key, fields) ==
    LET evs == GetFrom(loggers[l].storage, key).elems
        filtered == FilterEvents(evs, FieldSet(fields))
        val == IF Len(fields) = 0 THEN Slice(FALSE, evs) ELSE Slice(filtered = <<>>, filtered)
    IN /\ callCount' = [callCount EXCEPT ![loggers[l].storage].Get = @ + 1]
       /\ ret' = [op |-> "Events", logger |-> l, key |-> key, fields |-> fields, val |-> val]
       /\ UNCHANGED <<events, now, written, cleared, heap, procs, bridge, stores, loggers>>

\* l.Logs(key), the payload maps ranged over in the default order of the fields
LoggerLogs(l, key) ==
    LET evs == GetFrom(loggers[l].storage, key).elems
        orders == [i \in DOMAIN evs |-> RangeOrder(evs[i].Payload, <<"f", "g">>)]
    IN /\ callCount' = [callCount EXCEPT ![loggers[l].storage].Get = @ + 1]
       /\ ret' = [op |-> "Logs", logger |-> l, key |-> key,
                  val |-> LogsLoop(evs, orders, <<>>, <<>>)]
       /\ UNCHANGED <<events, now, written, cleared, heap, procs, bridge, stores, loggers>>

\* storage.Clear(key), called by the caller on a Storage it holds
StorageClear(s, key) ==
    /\ ClearIn(s, key)
    /\ ret' = [op |-> "Clear", storage |-> s, key |-> key]
    /\ UNCHANGED <<events, now, written, cleared, heap, procs, bridge, loggers>>

(***************************************************************************)
(* SpecMulti: Loggers are created with and without WithStorage and used on *)
(* one key.                                                                *)
(***************************************************************************)
RECURSIVE SumCalls(_)
SumCalls(cs) ==
    IF cs = <<>> THEN 0
    ELSE Head(cs).Store + Head(cs).Get + Head(cs).Has + Head(cs).Clear + SumCalls(Tail(cs))
CustomStorages == {i \in DOMAIN stores : stores[i].custom}
MultiOptions == {<<>>} \cup {<<s>> : s \in CustomStorages}
                   \cup {<<s, t>> : s \in CustomStorages, t \in CustomStorages}

MultiNewStorage == /\ Cardinality(CustomStorages) < MaxStorages
                   /\ NewStorage
MultiNew == /\ Len(loggers) < MaxLoggers
            /\ \E opts \in MultiOptions : New(opts)
MultiWrite == /\ SumCalls(callCount) < MaxStoreCalls
              /\ \E l \in DOMAIN loggers :
                    LoggerLogChange(l, "k1", ActionCreate, "alice", ToString(l),
                                    [k \in {"f"} |-> PlainValue("a")])
MultiEvents == /\ SumCalls(callCount) < MaxStoreCalls
               /\ \E l \in DOMAIN loggers, fs \in {<<>>, <<"g">>} : LoggerEvents(l, "k1", fs)
MultiLogs == /\ SumCalls(callCount) < MaxStoreCalls
             /\ \E l \in DOMAIN loggers : LoggerLogs(l, "k1")
MultiClear == /\ SumCalls(callCount) < MaxStoreCalls
              /\ \E s \in CustomStorages : StorageClear(s, "k1")

NextMulti == \/ MultiNewStorage \/ MultiNew \/ MultiWrite
             \/ MultiEvents \/ MultiLogs \/ MultiClear

SpecMulti == Init /\ [][NextMulti]_vars

(***************************************************************************)
(* Vocabulary of the properties.                                           *)
(***************************************************************************)
Stored(key) == Get(key).elems
WritesField(e, f) == f \in DOMAIN e.Payload
VisibleAt(evs, i, f) == WritesField(evs[i], f) /\ ~evs[i].Payload[f].Hidden
HiddenAt(evs, i, f) == WritesField(evs[i], f) /\ evs[i].Payload[f].Hidden
SetMax(S) == CHOOSE x \in S : \A y \in S : y <= x

\* the Data of the last visible write to f before event i, Nil when there is none
LastVisible(evs, i, f) ==
    LET J == {j \in 1..(i - 1) : VisibleAt(evs, j, f)}
    IN IF J = {} THEN Nil ELSE evs[SetMax(J)].Payload[f].Data

\* the ChangeFields of one Change, as a set
FieldsOf(change) == {change.Fields[n] : n \in DOMAIN change.Fields}
Masked(f) == [Field |-> f, From |-> HideText, To |-> HideText]

LogsReturned == ret.op = "Logs" /\ ~ret.val.panic
LogsPanicked == ret.op = "Logs" /\ ret.val.panic

(***************************************************************************)
(* C1: after N write calls on a key since its last Clear, Events(key) with *)
(* no field names and Logs(key) both have length N, in call order, and     *)
(* Logs(key)[i] carries the Description, Author and Timestamp of           *)
(* Events(key)[i].                                                         *)
(***************************************************************************)
C1_LengthAndOrder ==
    ret.op = "Logs" =>
        LET k == ret.key
            calls == written[k]
            evs == Events(k, <<>>).elems
        IN /\ Len(evs) = Len(calls)
           /\ \A i \in DOMAIN calls :
                 /\ evs[i].Author = calls[i].author
                 /\ evs[i].Description = calls[i].description
                 /\ evs[i].Payload = calls[i].payload
           /\ ~ret.val.panic
           /\ Len(ret.val.changes) = Len(calls)
           /\ \A i \in DOMAIN ret.val.changes :
                 /\ ret.val.changes[i].Description = evs[i].Description
                 /\ ret.val.changes[i].Author = evs[i].Author
                 /\ ret.val.changes[i].Timestamp = evs[i].Timestamp

(***************************************************************************)
(* C2: Logs(key) equals the reference replay: the Change of event i holds  *)
(* one masked ChangeField per hidden field of the event, and for a visible *)
(* field one ChangeField {field, From: replayed state or nil, To: Data}    *)
(* exactly when the replayed state differs from Data; each field at most   *)
(* once.                                                                   *)
(***************************************************************************)
RefFields(evs, i) ==
    {Masked(f) : f \in {g \in Fields : HiddenAt(evs, i, g)}}
    \cup {[Field |-> f, From |-> LastVisible(evs, i, f), To |-> evs[i].Payload[f].Data] :
             f \in {g \in Fields : /\ VisibleAt(evs, i, g)
                                   /\ LastVisible(evs, i, g) # evs[i].Payload[g].Data}}

C2_ReferenceReplay ==
    ret.op = "Logs" =>
        LET evs == Stored(ret.key)
        IN /\ ~ret.val.panic
           /\ Len(ret.val.changes) = Len(evs)
           /\ \A i \in DOMAIN ret.val.changes :
                 /\ FieldsOf(ret.val.changes[i]) = RefFields(evs, i)
                 /\ Len(ret.val.changes[i].Fields) = Cardinality(RefFields(evs, i))

(***************************************************************************)
(* C3 as stated: in what Logs returns, the Change of every event with a    *)
(* hidden field holds the ChangeField {field, "***", "***"} for it,        *)
(* whatever was written before; a visible write to a field so far only     *)
(* written as hidden is reported with From = nil.                          *)
(***************************************************************************)
OnlyHiddenBefore(evs, i, f) ==
    /\ \E j \in 1..(i - 1) : HiddenAt(evs, j, f)
    /\ \A j \in 1..(i - 1) : ~VisibleAt(evs, j, f)

C3_HiddenMasked ==
    LogsReturned =>
        LET evs == Stored(ret.key)
        IN \A i \in DOMAIN evs : \A f \in Fields :
              /\ HiddenAt(evs, i, f) => Masked(f) \in FieldsOf(ret.val.changes[i])
              /\ (VisibleAt(evs, i, f) /\ OnlyHiddenBefore(evs, i, f)) =>
                    \E cf \in FieldsOf(ret.val.changes[i]) : cf.Field = f /\ cf.From = Nil

(***************************************************************************)
(* C3 amended: in what Logs returns, the Change of every event with a      *)
(* hidden field holds exactly one ChangeField for it, {field, "***",       *)
(* "***"}; a visible write of a value other than nil to a field so far     *)
(* only written as hidden is reported with From = nil, and a visible write *)
(* of nil to such a field is not reported.                                 *)
(***************************************************************************)
C3_HiddenMaskedNonNil ==
    LogsReturned =>
        LET evs == Stored(ret.key)
        IN \A i \in DOMAIN evs : \A f \in Fields :
              LET forF == {cf \in FieldsOf(ret.val.changes[i]) : cf.Field = f}
              IN /\ HiddenAt(evs, i, f) => forF = {Masked(f)}
                 /\ (VisibleAt(evs, i, f) /\ OnlyHiddenBefore(evs, i, f)) =>
                       forF = IF evs[i].Payload[f].Data = Nil THEN {}
                              ELSE {[Field |-> f, From |-> Nil, To |-> evs[i].Payload[f].Data]}

\* Logs has returned for field f written hidden twice (the second time carrying Data)
\* and then visibly for the first time
C3_Witness ==
    /\ LogsReturned
    /\ LET evs == Stored(ret.key)
       IN /\ Len(evs) = 3
          /\ HiddenAt(evs, 1, "f")
          /\ HiddenAt(evs, 2, "f") /\ evs[2].Payload["f"].Data = "a"
          /\ VisibleAt(evs, 3, "f") /\ evs[3].Payload["f"].Data = "b"
          /\ Masked("f") \in FieldsOf(ret.val.changes[2])
          /\ [Field |-> "f", From |-> Nil, To |-> "b"] \in FieldsOf(ret.val.changes[3])

(***************************************************************************)
(* C4 as stated: after a hidden write to a field, the next visible write   *)
(* to the field is reported with From = nil.                               *)
(***************************************************************************)
NextVisibleAfterHidden(evs, i, j, f) ==
    /\ i < j
    /\ HiddenAt(evs, i, f)
    /\ VisibleAt(evs, j, f)
    /\ \A m \in (i + 1)..(j - 1) : ~WritesField(evs[m], f)

C4_FromNilAfterHidden ==
    LogsReturned =>
        LET evs == Stored(ret.key)
        IN \A i, j \in DOMAIN evs : \A f \in Fields :
              NextVisibleAfterHidden(evs, i, j, f) =>
                 \A cf \in FieldsOf(ret.val.changes[j]) : cf.Field = f => cf.From = Nil

(***************************************************************************)
(* C4 amended: in what Logs returns, the next visible write to a field     *)
(* after a hidden write is reported with From = the value of the last      *)
(* visible write before it (the hidden write does not reset that value),   *)
(* is not reported when it repeats that value, and has From = nil only     *)
(* when no visible value was written before.                               *)
(***************************************************************************)
C4_FromLastVisible ==
    LogsReturned =>
        LET evs == Stored(ret.key)
        IN \A i, j \in DOMAIN evs : \A f \in Fields :
              NextVisibleAfterHidden(evs, i, j, f) =>
                 LET last == LastVisible(evs, j, f)
                     data == evs[j].Payload[f].Data
                 IN {cf \in FieldsOf(ret.val.changes[j]) : cf.Field = f} =
                       IF last = data THEN {}
                       ELSE {[Field |-> f, From |-> last, To |-> data]}

\* Logs has returned for the history visible "a", hidden, visible "b" on field f
C4_Witness ==
    /\ LogsReturned
    /\ LET evs == Stored(ret.key)
       IN /\ Len(evs) = 3
          /\ VisibleAt(evs, 1, "f") /\ evs[1].Payload["f"].Data = "a"
          /\ HiddenAt(evs, 2, "f")
          /\ VisibleAt(evs, 3, "f") /\ evs[3].Payload["f"].Data = "b"
          /\ [Field |-> "f", From |-> "a", To |-> "b"] \in FieldsOf(ret.val.changes[3])

(***************************************************************************)
(* C5: the Data of hidden values never influences Logs: replacing the Data *)
(* of every hidden value of the history by any other datum gives the same  *)
(* outcome of Logs, for the same iteration order.                          *)
(***************************************************************************)
ScrubValue(v, d) == IF v.Hidden THEN HiddenData(d) ELSE v
ScrubEvent(e, d) ==
    [e EXCEPT !.Payload = [f \in DOMAIN e.Payload |-> ScrubValue(e.Payload[f], d)]]
Scrub(evs, d) == [i \in DOMAIN evs |-> ScrubEvent(evs[i], d)]
ScrubData == {Nil, "b", SliceX}

C5_HiddenDataNoInfluence ==
    ret.op = "Logs" =>
        \A d \in ScrubData :
            LogsLoop(Scrub(Stored(ret.key), d), ret.orders, <<>>, <<>>) = ret.val

\* Logs has returned for a history where a hidden value carrying Data is followed by a visible write
C5_Witness ==
    /\ LogsReturned
    /\ LET evs == Stored(ret.key)
       IN /\ Len(evs) >= 2
          /\ HiddenAt(evs, 1, "f") /\ evs[1].Payload["f"].Data = "a"
          /\ VisibleAt(evs, 2, "f") /\ evs[2].Payload["f"].Data = "b"

(***************************************************************************)
(* C6: when two consecutive events write the same visible value to a       *)
(* field, the Change of the second has no ChangeField for the field, and   *)
(* still carries the second event's Description, Author and Timestamp.     *)
(***************************************************************************)
C6_RepeatedValueSilent ==
    ret.op = "Logs" =>
        LET evs == Stored(ret.key)
        IN \A i \in DOMAIN evs : \A f \in Fields :
              (/\ i > 1
               /\ VisibleAt(evs, i - 1, f) /\ VisibleAt(evs, i, f)
               /\ evs[i - 1].Payload[f].Data = evs[i].Payload[f].Data) =>
                 /\ ~ret.val.panic
                 /\ \A cf \in FieldsOf(ret.val.changes[i]) : cf.Field # f
                 /\ ret.val.changes[i].Description = evs[i].Description
                 /\ ret.val.changes[i].Author = evs[i].Author
                 /\ ret.val.changes[i].Timestamp = evs[i].Timestamp

(***************************************************************************)
(* Vocabulary of the filtering properties.                                 *)
(***************************************************************************)
NamesOf(fields) == {fields[n] : n \in DOMAIN fields}
Matching(evs, F) == {i \in DOMAIN evs : (DOMAIN evs[i].Payload) \cap F # {}}
\* the n-th smallest element of a set of indices
Nth(S, n) == CHOOSE i \in S : Cardinality({j \in S : j <= i}) = n
Restrict(payload, F) == [k \in (DOMAIN payload) \cap F |-> payload[k]]
Selected(evs, fields) == IF Len(fields) = 0 THEN DOMAIN evs ELSE Matching(evs, NamesOf(fields))

(***************************************************************************)
(* C7: for a non-empty list of requested names F, Events(key, F...) holds  *)
(* exactly the events whose payload has a name in F (hidden fields count), *)
(* each with its payload restricted to F; names never written give an      *)
(* empty result.                                                           *)
(***************************************************************************)
C7_FilterExact ==
    (ret.op = "Events" /\ Len(ret.fields) > 0) =>
        LET F == NamesOf(ret.fields)
            evs == Stored(ret.key)
            M == Matching(evs, F)
            out == ret.val.elems
        IN /\ Len(out) = Cardinality(M)
           /\ \A n \in DOMAIN out : out[n].Payload = Restrict(evs[Nth(M, n)].Payload, F)
           /\ (\A i \in DOMAIN evs : (DOMAIN evs[i].Payload) \cap F = {}) => Len(out) = 0

\* Events("k1", "g") has returned for three events: one without g, one with f and g, one with a hidden g
C7_Witness ==
    /\ ret.op = "Events" /\ ret.fields = <<"g">>
    /\ LET evs == Stored(ret.key)
       IN /\ Len(evs) = 3
          /\ DOMAIN evs[1].Payload = {"f"}
          /\ DOMAIN evs[2].Payload = {"f", "g"}
          /\ HiddenAt(evs, 3, "g")
          /\ Len(ret.val.elems) = 2
          /\ DOMAIN ret.val.elems[1].Payload = {"g"}

(***************************************************************************)
(* C8: the events returned by Events(key, F...) are in stored order, each  *)
(* with the Timestamp, Action, Author and Description of the stored event  *)
(* it came from.                                                           *)
(***************************************************************************)
C8_FilterKeepsOrder ==
    ret.op = "Events" =>
        LET evs == Stored(ret.key)
            M == Selected(evs, ret.fields)
            out == ret.val.elems
        IN /\ Len(out) = Cardinality(M)
           /\ \A n \in DOMAIN out :
                 LET e == evs[Nth(M, n)]
                 IN /\ out[n].Timestamp = e.Timestamp
                    /\ out[n].Action = e.Action
                    /\ out[n].Author = e.Author
                    /\ out[n].Description = e.Description

\* a filtered Events call has returned the first and the third of three events,
\* which differ in Timestamp and Action
C8_Witness ==
    /\ ret.op = "Events" /\ Len(ret.fields) > 0
    /\ LET evs == Stored(ret.key)
       IN /\ Len(evs) = 3
          /\ Matching(evs, NamesOf(ret.fields)) = {1, 3}
          /\ Len(ret.val.elems) = 2
          /\ evs[1].Timestamp < evs[3].Timestamp
          /\ evs[1].Action # evs[3].Action

(***************************************************************************)
(* C9: for a key with no write (since its last Clear, so also a key never  *)
(* written), Events(key) and Get(key) return an empty non-nil sequence,    *)
(* Logs(key) returns no Changes without failing, Has(key) is false, and    *)
(* the read leaves the key without an entry in the store.                  *)
(***************************************************************************)
C9_UnknownKeyEmpty ==
    (ret.op \in {"Events", "Get", "Logs", "Has"} /\ written[ret.key] = <<>>) =>
        /\ ret.key \notin DOMAIN events
        /\ ret.op = "Events" => ret.val.elems = <<>> /\ (ret.fields = <<>> => ~ret.val.isNil)
        /\ ret.op = "Get" => ret.val = Slice(FALSE, <<>>)
        /\ ret.op = "Logs" => ~ret.val.panic /\ ret.val.changes = <<>>
        /\ ret.op = "Has" => ret.val = FALSE

\* Events(key) has returned for a key never written while the other key has a history
C9_Witness ==
    /\ ret.op = "Events" /\ ret.fields = <<>>
    /\ written[ret.key] = <<>>
    /\ \E k \in Keys \ {ret.key} : Len(Stored(k)) > 0

(***************************************************************************)
(* C10: each Create, Update, Delete or LogChange call on key k appends     *)
(* exactly one event to the end of k's history, with Action create, update,*)
(* delete (or the one passed to LogChange) and the caller's author,        *)
(* description and payload, and leaves every other key's history unchanged.*)
(***************************************************************************)
Hist(store, k) == IF k \in DOMAIN store THEN store[k] ELSE <<>>
ExpectedAction(c) ==
    CASE c.op = "Create" -> "create"
      [] c.op = "Update" -> "update"
      [] c.op = "Delete" -> "delete"
      [] c.op = "LogChange" -> c.action

C10_WriteAppendsOne ==
    [][\A k \in Keys :
          Len(written'[k]) = Len(written[k]) + 1 =>
             LET c == written'[k][Len(written'[k])]
                 old == Hist(events, k)
                 new == Hist(events', k)
             IN /\ Len(new) = Len(old) + 1
                /\ SubSeq(new, 1, Len(old)) = old
                /\ new[Len(new)].Action = ExpectedAction(c)
                /\ new[Len(new)].Author = c.author
                /\ new[Len(new)].Description = c.description
                /\ new[Len(new)].Payload = c.payload
                /\ \A k2 \in Keys \ {k} :
                      /\ Hist(events', k2) = Hist(events, k2)
                      /\ (k2 \in DOMAIN events') = (k2 \in DOMAIN events)]_vars

\* a Delete has just been appended to one key while the other key holds an event
C10_Witness ==
    /\ ret.op = "Delete"
    /\ Stored(ret.key)[Len(Stored(ret.key))].Action = ActionDelete
    /\ \E k \in Keys \ {ret.key} : Len(Stored(k)) > 0

(***************************************************************************)
(* C17: for every key, the empty string included, Has(key) is true exactly *)
(* when at least one event has been stored under the key since its last    *)
(* Clear, which is exactly when Get(key) is non-empty.                     *)
(***************************************************************************)
C17_HasIffStored ==
    /\ \A k \in Keys :
          /\ Has(k) = (written[k] # <<>>)
          /\ Has(k) = (Get(k).elems # <<>>)
    /\ ret.op = "Has" => ret.val = (written[ret.key] # <<>>)

\* Has("") has returned true while the other key, written to and cleared or
\* never written, has no history
C17_Witness ==
    /\ ret.op = "Has" /\ ret.key = "" /\ ret.val
    /\ Len(Stored("")) > 0
    /\ \A k \in Keys \ {""} : ~Has(k)

C20_LogsNeverPanics ==
    ret.op = "Logs" =>
        /\ ~ret.val.panic
        /\ Len(ret.val.changes) = Len(Stored(ret.key))

(***************************************************************************)
(* C11: Events(key) without field names returns a defensive copy: when the *)
(* caller replaces elements of the returned sequence, or adds, removes or  *)
(* changes entries of a returned event's Payload map, what Events, Logs    *)
(* and Get return afterwards for any key is unchanged.                     *)
(***************************************************************************)
LogsInOrder(k) ==
    Logs(k, RangeOrders(Get(k).elems, [i \in 1..Len(Get(k).elems) |-> <<"f", "g">>]))

C11_ReturnedCopyIsolated ==
    [][(held.op = "Events" /\ ret'.op \in {"Replace", "SetReturned"}) =>
          \A k \in Keys :
             /\ Events(k, <<>>)' = Events(k, <<>>)
             /\ Get(k)' = Get(k)
             /\ LogsInOrder(k)' = LogsInOrder(k)]_vars

(***************************************************************************)
(* C12: a stored event is never mutated: while it remains in the store     *)
(* (until a Clear of its key) its Timestamp, Action, Author, Description   *)
(* and Payload stay what was passed to the write call, also when the       *)
(* caller afterwards modifies or reuses the payload map it passed.         *)
(***************************************************************************)
C12_StoredNeverMutated ==
    [][\A k \in Keys :
          Len(written'[k]) >= Len(written[k]) =>
             /\ \A i \in DOMAIN Hist(events, k) :
                   /\ i \in DOMAIN Hist(events', k)
                   /\ Hist(events', k)[i] = Hist(events, k)[i]
             /\ \A i \in DOMAIN Hist(events', k) :
                   /\ i \in DOMAIN written'[k]
                   /\ Hist(events', k)[i].Payload = written'[k][i].payload
                   /\ Hist(events', k)[i].Author = written'[k][i].author
                   /\ Hist(events', k)[i].Description = written'[k][i].description]_vars

DoneOn(w, k) ==
    LET d == SelectSeq(done[w], LAMBDA x : x.key = k)
    IN [i \in DOMAIN d |-> d[i].event]
ByAuthor(evs, w) == SelectSeq(evs, LAMBDA e : e.Author = w)
KeysOf(w) == {done[w][i].key : i \in DOMAIN done[w]}
InsideWrite(p) == pc[p] \in {"cs", "cs2"}
InsideRead(p) == pc[p] = "rcs"
Inside(p) == InsideWrite(p) \/ InsideRead(p)
\* every call of every writer has returned
Quiet == \A w \in Writers : pc[w] = "idle"

(***************************************************************************)
(* C13: concurrent LogChange/Store calls on the same key lose no event:    *)
(* once the writers' calls have returned, the key's history holds exactly  *)
(* the events of all of them, each once, and the events of each writer in  *)
(* that writer's call order.                                               *)
(***************************************************************************)
C13_NoLostEvent ==
    Quiet =>
       \A k \in Keys :
          LET h == Hist(events, k)
          IN /\ \A w \in Writers : ByAuthor(h, w) = DoneOn(w, k)
             /\ Len(h) = Cardinality({<<w, i>> \in Writers \X (1..MaxCalls) :
                                        i \in DOMAIN DoneOn(w, k)})
             /\ \A i, j \in DOMAIN h : i # j => h[i] # h[j]

\* both writers have made all their calls on k1, their events interleaved
C13_Witness ==
    /\ Quiet
    /\ \A w \in Writers : Len(DoneOn(w, "k1")) = MaxCalls
    /\ Len(Stored("k1")) = 2 * MaxCalls
    /\ Stored("k1")[1].Author # Stored("k1")[2].Author

(***************************************************************************)
(* C14: N concurrent writers that each append M events to their own key    *)
(* leave exactly N*M events recoverable through Events and Get, each key   *)
(* holding exactly its writer's M events in call order, whatever the       *)
(* interleaving.                                                           *)
(***************************************************************************)
C14_DistinctKeys ==
    \A M \in 1..MaxCalls :
       ( /\ Quiet
         /\ \A w \in Writers : Len(done[w]) = M /\ Cardinality(KeysOf(w)) = 1
         /\ \A w1, w2 \in Writers : w1 # w2 => KeysOf(w1) \cap KeysOf(w2) = {} ) =>
       /\ TotalEvents = Cardinality(Writers) * M
       /\ \A w \in Writers : \A k \in KeysOf(w) :
             /\ Events(k, <<>>).elems = DoneOn(w, k)
             /\ Get(k).elems = DoneOn(w, k)
             /\ Len(DoneOn(w, k)) = M

\* each writer has made all its calls on a key of its own
C14_Witness ==
    /\ Quiet
    /\ Len(DoneOn("w1", "k1")) = MaxCalls
    /\ Len(DoneOn("w2", "")) = MaxCalls
    /\ Len(Stored("k1")) = MaxCalls /\ Len(Stored("")) = MaxCalls

(***************************************************************************)
(* C15: a Get that runs concurrently with Store calls sees each Store      *)
(* completely or not at all: what it returns is the sequence of whole      *)
(* events of the Store calls serialized so far on the key (a prefix of the *)
(* key's serialization order), never a half-written event.                 *)
(***************************************************************************)
C15_GetSeesWholeStores ==
    \A r \in Readers :
       (InsideRead(r) /\ loc[r].op = "Get") =>
          LET res == ReadResult(r).elems
          IN /\ res = written[loc[r].key]
             /\ \A i \in DOMAIN res : res[i] # ZeroEvent
             /\ \A i \in DOMAIN res : \E w \in Writers : res[i] \in {d.event : d \in {done[w][j] : j \in DOMAIN done[w]}}

\* a Get reads a key with a history while a Store call for the same key awaits the lock
C15_Witness ==
    \E r \in Readers, w \in Writers :
       /\ InsideRead(r) /\ loc[r].op = "Get"
       /\ Len(written[loc[r].key]) > 0
       /\ pc[w] \in {"lock", "wait"} /\ loc[w].op = "Store" /\ loc[w].key = loc[r].key

(***************************************************************************)
(* C19: no writer (Store or Clear) is ever inside its critical section     *)
(* together with another writer or with a reader (Get or Has); readers are *)
(* inside together, and a reader waits only while a writer holds or awaits *)
(* the lock, never for another reader.                                     *)
(***************************************************************************)
C19_WritersExclusive ==
    /\ \A w \in Writers : InsideWrite(w) => \A q \in Procs \ {w} : ~Inside(q)
    /\ \A r \in Readers :
          (pc[r] = "rlock" /\ \A w \in Writers : pc[w] \notin {"cs", "cs2", "wait"}) =>
             ENABLED RLock(r)

\* both readers are inside at once, one in Get and one in Has, while a Clear call waits for them
C19_Witness ==
    /\ InsideRead("r1") /\ InsideRead("r2")
    /\ loc["r1"].op = "Get" /\ loc["r2"].op = "Has"
    /\ \E w \in Writers : pc[w] = "wait" /\ loc[w].op = "Clear"

(***************************************************************************)
(* Vocabulary of the slog adapter's properties: the Handle call that has   *)
(* just returned, read from the record of the last call.                   *)
(***************************************************************************)
Handled == ret.op = "Handle"
HandledBy == hs[ret.h]
HandledAttrs == hs[ret.h].attrs \o ret.record.Attrs
HasAttr(attrs, name) == \E i \in DOMAIN attrs : attrs[i].Key = name
AttrNames(attrs) == {attrs[i].Key : i \in DOMAIN attrs}
KeyResolved == HasAttr(HandledAttrs, HandledBy.opts.KeyExtractor)
ResolvedKey == HandledAttrs[FirstAttr(HandledAttrs, {HandledBy.opts.KeyExtractor})].Value
DelegateFailed == HandledBy.handler /\ ret.derr # "nil"
PositiveDecision == HandledBy.opts.ShouldAudit = "nil" \/ ret.record.Level >= LevelInfo
LastStored(k) == Stored(k)[Len(Stored(k))]

(***************************************************************************)
(* C21: NewHandler called with no KeyExtractor panics and returns no       *)
(* Handler, so no Handler without a key-resolution rule ever exists.       *)
(***************************************************************************)
C21_NoHandlerWithoutKeyExtractor ==
    /\ \A i \in DOMAIN hs : hs[i].opts.KeyExtractor # "nil"
    /\ (ret.op = "NewHandler" /\ ret.opts.KeyExtractor = "nil") => ret.panic

\* NewHandler has panicked on options without a KeyExtractor while a Handler
\* constructed earlier exists
C21_Witness ==
    /\ ret.op = "NewHandler" /\ ret.opts.KeyExtractor = "nil" /\ ret.panic
    /\ Len(hs) > 0

(***************************************************************************)
(* C22: when the attributes of the handler and of the record resolve no    *)
(* key, Handle leaves the history of every key unchanged (no call of the   *)
(* Logger is made), and it returns nil: the only error it can still return *)
(* is the one the underlying handler returned before the key was looked    *)
(* for.                                                                    *)
(***************************************************************************)
C22_NoKeyNoLoggerCall ==
    [][ (Handled' /\ ~KeyResolved') =>
           /\ events' = events
           /\ written' = written
           /\ ~DelegateFailed' => ret'.out.err = "nil" ]_vars

\* a record without the key attribute was handed on to the underlying handler,
\* the KeyExtractor was asked and found nothing, and a history exists already
C22_Witness ==
    /\ Handled /\ ~KeyResolved /\ ret.out.keyCalled
    /\ HandledBy.handler /\ ret.out.err = "nil"
    /\ TotalEvents > 0

(***************************************************************************)
(* C23: for every record with a positive audit decision (ShouldAudit nil   *)
(* or true) and a resolved key, Handle appends exactly one event to that   *)
(* key, with the extracted action, author and payload and the record's     *)
(* message as description, whether the underlying handler succeeds or      *)
(* fails.                                                                  *)
(***************************************************************************)
C23_AuditedWhateverDelegateDoes ==
    [][ (Handled' /\ PositiveDecision' /\ KeyResolved') =>
           \A k \in Keys :
              Stored(k)' =
                 IF k = ResolvedKey'
                   THEN Append(Stored(k),
                               Event(now, DefaultActionExtractor(HandledAttrs'),
                                     DefaultAuthorExtractor(HandledAttrs'),
                                     ret'.record.Message,
                                     DefaultPayloadExtractor(HandledAttrs')))
                   ELSE Stored(k) ]_vars

(***************************************************************************)
(* C24: the payload passed to the Logger excludes every attribute name     *)
(* consumed to resolve the key, the action or the author and contains      *)
(* every other attribute of the handler and of the record, whatever        *)
(* KeyExtractor is configured.  Read generously: the name the KeyExtractor *)
(* reads, the action attribute and the first author attribute are          *)
(* consumed; every name that is neither the KeyExtractor's nor one of      *)
(* action, author, user is not.                                            *)
(***************************************************************************)
C24_PayloadExcludesConsumed ==
    (Handled /\ ret.out.audited) =>
       LET payload == LastStored(ret.out.key).Payload
           iauthor == FirstAttr(HandledAttrs, {AttrAuthor, AttrUser})
           consumed == {HandledBy.opts.KeyExtractor}
                          \cup (AttrNames(HandledAttrs) \cap {AttrAction})
                          \cup (IF iauthor > 0 THEN {HandledAttrs[iauthor].Key} ELSE {})
           others == AttrNames(HandledAttrs)
                        \ {HandledBy.opts.KeyExtractor, AttrAction, AttrAuthor, AttrUser}
       IN /\ DOMAIN payload \cap consumed = {}
          /\ others \subseteq DOMAIN payload

(***************************************************************************)
(* C25: the action of the event the adapter stores is create, update or    *)
(* delete when the action attribute (the first one, in the order handler   *)
(* attributes then record attributes) has exactly that text, and create    *)
(* when there is no action attribute or its text is none of the three; so  *)
(* every stored event's Action is one of the three defined actions.        *)
(***************************************************************************)
C25_ActionOneOfThree ==
    /\ (Handled /\ ret.out.audited) =>
          LET i == FirstAttr(HandledAttrs, {"action"})
              expected == IF i > 0 /\ HandledAttrs[i].Value \in {"create", "update", "delete"}
                            THEN HandledAttrs[i].Value
                            ELSE "create"
          IN LastStored(ret.out.key).Action = expected
    /\ \A k \in Keys : \A j \in DOMAIN Stored(k) :
          Stored(k)[j].Action \in {ActionCreate, ActionUpdate, ActionDelete}

\* a record whose action attribute reads "archive" was stored as a create,
\* after a record stored as an update or a delete
C25_Witness ==
    /\ Handled /\ ret.out.audited
    /\ HasAttr(HandledAttrs, "action")
    /\ HandledAttrs[FirstAttr(HandledAttrs, {"action"})].Value = "archive"
    /\ LastStored(ret.out.key).Action = ActionCreate
    /\ \E k \in Keys : \E j \in DOMAIN Stored(k) : Stored(k)[j].Action # ActionCreate

(***************************************************************************)
(* C26: the author of the event the adapter stores is the value of the     *)
(* first attribute, in attribute order, whose key is "author" or "user",   *)
(* and "system" when no attribute has either key.                          *)
(***************************************************************************)
C26_AuthorFirstOfAuthorUser ==
    (Handled /\ ret.out.audited) =>
       LET named == {i \in DOMAIN HandledAttrs : HandledAttrs[i].Key \in {"author", "user"}}
           stored == LastStored(ret.out.key).Author
       IN IF named = {}
            THEN stored = "system"
            ELSE \E i \in named : /\ \A j \in named : i <= j
                                   /\ stored = HandledAttrs[i].Value

\* a record with a user attribute before an author attribute was stored under
\* the user's value
C26_Witness ==
    /\ Handled /\ ret.out.audited
    /\ \E i, j \in DOMAIN HandledAttrs :
          /\ i < j
          /\ HandledAttrs[i].Key = "user" /\ HandledAttrs[j].Key = "author"
          /\ \A n \in 1..(i - 1) : HandledAttrs[n].Key \notin {"author", "user"}
          /\ HandledAttrs[i].Value # HandledAttrs[j].Value
          /\ LastStored(ret.out.key).Author = HandledAttrs[i].Value

(***************************************************************************)
(* C27: when ShouldAudit is set and is false for the record, Handle stores *)
(* no event for any key while the underlying handler, if there is one,     *)
(* still receives the record; when ShouldAudit is nil every record counts  *)
(* as a positive decision: with a resolved key and no failure of the       *)
(* underlying handler its event is stored, whatever its level.             *)
(***************************************************************************)
C27_ShouldAuditDecides ==
    [][ Handled' =>
          /\ (HandledBy'.opts.ShouldAudit # "nil" /\ ret'.record.Level < LevelInfo) =>
                /\ events' = events
                /\ written' = written
                /\ HandledBy'.handler =>
                      sink' = Append(sink, [record |-> ret'.record, attrs |-> HandledBy'.attrs])
          /\ (HandledBy'.opts.ShouldAudit = "nil" /\ KeyResolved' /\ ~DelegateFailed') =>
                \A k \in Keys :
                   k = ResolvedKey' => Len(Stored(k)') = Len(Stored(k)) + 1 ]_vars

\* a debug record that names a key went through a handler whose ShouldAudit
\* rejects it: the underlying handler has it, the histories stored before remain
C27_Witness ==
    /\ Handled /\ HandledBy.opts.ShouldAudit # "nil" /\ ret.record.Level < LevelInfo
    /\ KeyResolved /\ HandledBy.handler /\ ret.derr = "nil"
    /\ Len(sink) > 0 /\ sink[Len(sink)].record = ret.record
    /\ TotalEvents > 0

(***************************************************************************)
(* C28: Handle returns nil whenever there is no underlying handler or the  *)
(* underlying handler succeeds, whether the record was audited or skipped; *)
(* the only error it ever returns is the one the underlying handler        *)
(* returned.                                                               *)
(***************************************************************************)
C28_OnlyDelegateError ==
    Handled => ret.out.err = IF DelegateFailed THEN ret.derr ELSE "nil"

\* the underlying handler failed on a record that would have been audited, and
\* Handle returned that error
C28_Witness ==
    /\ Handled /\ DelegateFailed /\ ret.out.err = ret.derr
    /\ PositiveDecision /\ KeyResolved

(***************************************************************************)
(* C29: for every key written by a single writer, the Timestamps of the    *)
(* events Events(key) returns are non-decreasing along the sequence, the   *)
(* clock never going backwards.                                            *)
(***************************************************************************)
SingleWriter(k) == Cardinality({Stored(k)[i].Author : i \in DOMAIN Stored(k)}) <= 1
C29_TimestampsNonDecreasing ==
    (\A w \in Writers : ~InsideWrite(w)) =>
       \A k \in Keys :
          SingleWriter(k) =>
             LET evs == Events(k, <<>>).elems
             IN \A i, j \in DOMAIN evs : i < j => evs[i].Timestamp <= evs[j].Timestamp

\* one writer has stored two events under a key at different readings of the
\* clock, and the other writer has stored an event under the other key
C29_Witness ==
    /\ \A w \in Writers : ~InsideWrite(w)
    /\ \E k \in Keys :
          /\ SingleWriter(k) /\ Len(Stored(k)) = 2
          /\ Stored(k)[1].Timestamp < Stored(k)[2].Timestamp
          /\ \E k2 \in Keys \ {k} :
                \E i \in DOMAIN Stored(k2) : Stored(k2)[i].Author # Stored(k)[1].Author

(***************************************************************************)
(* C30: Events and Logs are pure reads.  A call leaves the stored history  *)
(* of every key and the clock unchanged, and a second call with the same   *)
(* arguments, made before any write or Clear, has the outcome of the       *)
(* first: for Events the same sequence, for Logs the same Changes with the *)
(* same ChangeFields in each, in whatever order the payload maps are       *)
(* ranged over.                                                            *)
(***************************************************************************)
SameFields(x, y) ==
    /\ Len(x) = Len(y)
    /\ {x[i] : i \in DOMAIN x} = {y[i] : i \in DOMAIN y}
SameLogs(a, b) ==
    /\ a.panic = b.panic
    /\ Len(a.changes) = Len(b.changes)
    /\ \A i \in DOMAIN a.changes :
          /\ a.changes[i].Description = b.changes[i].Description
          /\ a.changes[i].Author = b.changes[i].Author
          /\ a.changes[i].Timestamp = b.changes[i].Timestamp
          /\ SameFields(a.changes[i].Fields, b.changes[i].Fields)
LogsOutcomes(k) ==
    {Logs(k, RangeOrders(Stored(k), perms)) : perms \in [1..Len(Stored(k)) -> FieldPerms]}
C30_ReadsArePure ==
    [][ ret'.op \in {"Events", "Logs"} =>
          /\ events' = events
          /\ written' = written
          /\ now' = now
          \* the store being unchanged, a second call reads what the first one read
          /\ \A k \in Keys :
                /\ (ret'.op = "Events" /\ ret'.key = k) =>
                      \A fs \in ReadsFieldLists :
                         ret'.fields = fs => Events(k, fs) = ret'.val
                /\ (ret'.op = "Logs" /\ ret'.key = k) =>
                      \A again \in LogsOutcomes(k) : SameLogs(again, ret'.val) ]_vars

\* Logs has returned two Changes, the first with two ChangeFields in the order
\* g, f, while another order of ranging gives them in the order f, g
C30_Witness ==
    /\ LogsReturned
    /\ Len(ret.val.changes) = 2
    /\ Len(ret.val.changes[1].Fields) = 2
    /\ ret.val.changes[1].Fields[1].Field = "g"
    /\ \E again \in LogsOutcomes(ret.key) : again.changes[1].Fields[1].Field = "f"

(***************************************************************************)
(* C31: in what Logs returns, the From of every unmasked ChangeField of a  *)
(* field is the To of the most recent earlier unmasked ChangeField of the  *)
(* same field, or nil when there is none, whatever hidden writes lie in    *)
(* between; and From differs from To in every unmasked ChangeField.        *)
(***************************************************************************)
UnmaskedAt(evs, changes, i, f) ==
    VisibleAt(evs, i, f) /\ \E cf \in FieldsOf(changes[i]) : cf.Field = f
C31_FromChainsToTo ==
    LogsReturned =>
        LET evs == Stored(ret.key)
            changes == ret.val.changes
        IN \A i \in DOMAIN changes : \A cf \in FieldsOf(changes[i]) :
              VisibleAt(evs, i, cf.Field) =>
                 LET J == {j \in 1..(i - 1) : UnmaskedAt(evs, changes, j, cf.Field)}
                 IN /\ cf.From # cf.To
                    /\ IF J = {} THEN cf.From = Nil
                       ELSE \E c2 \in FieldsOf(changes[SetMax(J)]) :
                               c2.Field = cf.Field /\ cf.From = c2.To

\* Logs has returned for a visible "a", a hidden write and a visible nil on
\* field f: the third Change reports f from "a" to nil
C31_Witness ==
    /\ LogsReturned
    /\ Len(ret.val.changes) = 3
    /\ VisibleAt(Stored(ret.key), 1, "f") /\ HiddenAt(Stored(ret.key), 2, "f")
    /\ [Field |-> "f", From |-> Nil, To |-> "a"] \in FieldsOf(ret.val.changes[1])
    /\ [Field |-> "f", From |-> "a", To |-> Nil] \in FieldsOf(ret.val.changes[3])

(***************************************************************************)
(* C32: as long as a key is not cleared, what Events(key) and Logs(key)    *)
(* return before a step is a prefix of what they return after it: a reader *)
(* that calls them again sees its sequence grown at the end, never         *)
(* rewritten.  Changes are compared up to the order of their ChangeFields. *)
(***************************************************************************)
IsPrefix(x, y) == Len(x) <= Len(y) /\ \A i \in DOMAIN x : x[i] = y[i]
ChangesPrefix(x, y) ==
    /\ Len(x) <= Len(y)
    /\ \A i \in DOMAIN x :
          /\ x[i].Description = y[i].Description
          /\ x[i].Author = y[i].Author
          /\ x[i].Timestamp = y[i].Timestamp
          /\ SameFields(x[i].Fields, y[i].Fields)
LogsOutcomesOf(evs) ==
    {LogsLoop(evs, RangeOrders(evs, perms), <<>>, <<>>) : perms \in [1..Len(evs) -> FieldPerms]}
C32_ReportedHistoryOnlyGrows ==
    [][ \A k \in Keys :
          ~(ret'.op = "Clear" /\ ret'.key = k) =>
             \A before \in {Events(k, <<>>).elems}, after \in {Events(k, <<>>).elems'} :
                /\ IsPrefix(before, after)
                /\ before # after =>
                      \A o1 \in LogsOutcomesOf(before) :
                         ~o1.panic =>
                            \A o2 \in LogsOutcomesOf(after) :
                               ~o2.panic /\ ChangesPrefix(o1.changes, o2.changes) ]_vars

C34_EveryCallReturns ==
    /\ \A p \in Procs : (pc[p] # "idle") ~> (pc[p] = "idle")
    /\ (mu.writer # "none" \/ mu.pending # "none") ~> (mu.writer = "none" /\ mu.pending = "none")

\* a Store call waits for a reader to leave while the other reader and the other
\* writer are held back behind it
C34_Witness ==
    \E w \in Writers, r \in Readers :
       /\ pc[w] = "wait" /\ loc[w].op = "Store"
       /\ InsideRead(r)
       /\ \A r2 \in Readers \ {r} : pc[r2] = "rlock"
       /\ \A w2 \in Writers \ {w} : pc[w2] = "lock"

(***************************************************************************)
(* C35: a Logger passes its calls through to the Storage it holds.  A      *)
(* write call makes exactly one Store call on that Storage and no other    *)
(* call; an Events or Logs call makes exactly one Get call on it and       *)
(* changes no Storage; no call of a Logger makes a Clear call.  New with   *)
(* WithStorage holds the supplied Storage; New without options holds a new *)
(* empty Storage that no other Logger holds.                               *)
(***************************************************************************)
C35_LoggerPassesThrough ==
    [][ \A l \in DOMAIN loggers' :
          ret'.op \in {"LogChange", "Events", "Logs", "NewLogger"} /\ ret'.logger = l =>
             LET s == loggers'[l].storage
             IN /\ ret'.op = "LogChange" =>
                      /\ callCount' = [callCount EXCEPT ![s].Store = @ + 1]
                      /\ loggers' = loggers
                      /\ \A t \in DOMAIN stores :
                            /\ t # s => stores'[t] = stores[t]
                            /\ t = s =>
                                  \A k \in Keys :
                                     Len(SeqOf(stores'[t].events, k)) =
                                        Len(SeqOf(stores[t].events, k))
                                           + (IF k = ret'.key THEN 1 ELSE 0)
                /\ ret'.op \in {"Events", "Logs"} =>
                      /\ callCount' = [callCount EXCEPT ![s].Get = @ + 1]
                      /\ stores' = stores /\ loggers' = loggers
                      /\ (ret'.op = "Events" /\ ret'.fields = <<>>) =>
                            ret'.val.elems = SeqOf(stores[s].events, ret'.key)
                      /\ ret'.op = "Logs" =>
                            Len(ret'.val.changes) = Len(SeqOf(stores[s].events, ret'.key))
                /\ ret'.op = "NewLogger" =>
                      /\ \A i \in DOMAIN stores :
                            stores'[i] = stores[i] /\ callCount'[i] = callCount[i]
                      /\ \A l2 \in DOMAIN loggers : loggers'[l2] = loggers[l2]
                      /\ IF ret'.opts = <<>>
                            THEN /\ s \notin DOMAIN stores
                                 /\ stores'[s].events = <<>>
                                 /\ \A l2 \in DOMAIN loggers : loggers[l2].storage # s
                            ELSE s = ret'.opts[Len(ret'.opts)] ]_vars

\* Events called on the second Logger returns the event written through the
\* first one: both were created with WithStorage on the same Storage
C35_Witness ==
    /\ ret.op = "Events" /\ ret.logger = 2 /\ ret.fields = <<>>
    /\ loggers[1].storage = loggers[2].storage
    /\ stores[loggers[1].storage].custom
    /\ Len(ret.val.elems) = 1 /\ ret.val.elems[1].Description = "1"

(***************************************************************************)
(* C36: a write with an empty payload is stored like any other write.  Its *)
(* event is in Events(key) called without field names, its Change in       *)
(* Logs(key) has an empty Fields list, and Events(key, F...) with a        *)
(* non-empty F never includes it.                                          *)
(***************************************************************************)
EmptyPayloadAt(evs) == {i \in DOMAIN evs : evs[i].Payload = <<>>}
C36_EmptyPayloadStored ==
    \A k \in Keys :
       LET evs == Stored(k)
       IN /\ Len(evs) = Len(written[k])
          /\ \A i \in DOMAIN evs : evs[i].Payload = written[k][i].payload
          /\ (ret.op = "Events" /\ ret.key = k /\ ret.fields = <<>>) => ret.val.elems = evs
          /\ (ret.op = "Events" /\ ret.key = k /\ ret.fields # <<>>) =>
                /\ \A j \in DOMAIN ret.val.elems : ret.val.elems[j].Payload # <<>>
                /\ Len(ret.val.elems) =
                      Cardinality({i \in DOMAIN evs \ EmptyPayloadAt(evs) :
                                      HasField(evs[i], FieldSet(ret.fields))})
          /\ (LogsReturned /\ ret.key = k) =>
                \A i \in EmptyPayloadAt(evs) : ret.val.changes[i].Fields = <<>>

\* Events(key, "g") has returned one event of a history of two, the other
\* having an empty payload
C36_Witness ==
    /\ ret.op = "Events" /\ ret.fields = <<"g">>
    /\ Len(Stored(ret.key)) = 2
    /\ Cardinality(EmptyPayloadAt(Stored(ret.key))) = 1
    /\ Len(ret.val.elems) = 1

(***************************************************************************)
(* C37: WithAttrs adds one Handler that carries the parent's attributes    *)
(* followed by the new ones and is otherwise the parent's copy (the same   *)
(* options, writing to the same Logger), and leaves every existing Handler *)
(* and every history as it was.  In Handle the handler's attributes come   *)
(* before the record's: when the handler's attributes name the key, the    *)
(* action or the author, these decide, whatever the record says.           *)
(***************************************************************************)
ActionOfText(text) ==
    IF text \in {"create", "update", "delete"} THEN text ELSE "create"
C37_HandlerAttrsFirst ==
    [][ /\ ret'.op = "WithAttrs" =>
              \A i \in DOMAIN hs :
                 ret'.h = i =>
                    /\ Len(hs') = Len(hs) + 1
                    /\ \A j \in DOMAIN hs : hs'[j] = hs[j]
                    /\ hs'[Len(hs')].attrs = hs[i].attrs \o ret'.attrs
                    /\ hs'[Len(hs')].opts = hs[i].opts
                    /\ hs'[Len(hs')].handler = hs[i].handler
                    /\ events' = events /\ written' = written
        /\ (Handled' /\ ret'.out.audited) =>
              \A i \in DOMAIN hs :
                 ret'.h = i =>
                    LET own == hs[i].attrs
                        ikey == FirstAttr(own, {hs[i].opts.KeyExtractor})
                        iaction == FirstAttr(own, {"action"})
                        iauthor == FirstAttr(own, {"author", "user"})
                    IN \A k \in Keys :
                          ret'.out.key = k =>
                             LET stored == Stored(k)'[Len(Stored(k)')]
                             IN /\ ikey > 0 => k = own[ikey].Value
                                /\ iaction > 0 =>
                                      stored.Action = ActionOfText(own[iaction].Value)
                                /\ iauthor > 0 => stored.Author = own[iauthor].Value ]_vars

\* a handler derived from a derived handler handled a record that names another
\* key, action and author than the handler's attributes do
C37_Witness ==
    /\ Handled /\ ret.out.audited
    /\ \E a, b \in DeriveAttrs : a # b /\ HandledBy.attrs = a \o b
    /\ FirstAttr(ret.record.Attrs, {HandledBy.opts.KeyExtractor}) > 0
    /\ ret.record.Attrs[FirstAttr(ret.record.Attrs, {HandledBy.opts.KeyExtractor})].Value
          # ret.out.key
    /\ FirstAttr(ret.record.Attrs, {"action"}) > 0
    /\ FirstAttr(ret.record.Attrs, {"author", "user"}) > 0
    /\ LastStored(ret.out.key).Author = "carol"
    /\ ret.out.key = ""
    /\ LastStored(ret.out.key).Action = ActionDelete

(***************************************************************************)
(* C38: the filtered Events depends only on the set of requested names: a  *)
(* list of names gives what any other list with the same names gives,      *)
(* whatever the order and the repetitions; the events of the history that  *)
(* Events(key, f1, f2) retains are those that Events(key, f1) or           *)
(* Events(key, f2) retains; and the events of every filtered result are    *)
(* events of Events(key), in its order, each with a part of its payload.   *)
(***************************************************************************)
RequestNames == {"f", "g", "h"}
RequestLists ==
    UNION {[1..n -> RequestNames] : n \in 1..3}
\* one list for each set of names
CanonicalList(S) ==
    CHOOSE fs \in RequestLists : NamesOf(fs) = S /\ Len(fs) = Cardinality(S)
SubPayload(p, q) ==
    /\ DOMAIN p \subseteq DOMAIN q
    /\ \A k \in DOMAIN p : p[k] = q[k]
\* the events of a history are told apart by their descriptions
DistinctDescriptions(evs) ==
    \A i, j \in DOMAIN evs : evs[i].Description = evs[j].Description => i = j
\* the positions in the history evs of the events that out holds
PositionsOf(out, evs) ==
    {i \in DOMAIN evs : \E n \in DOMAIN out : out[n].Description = evs[i].Description}
\* out holds events of evs, in the order of evs, each once and each with a part
\* of its payload
SubsequenceOf(out, evs) ==
    /\ \A n \in DOMAIN out :
          \E i \in DOMAIN evs :
             /\ out[n] = [evs[i] EXCEPT !.Payload = out[n].Payload]
             /\ SubPayload(out[n].Payload, evs[i].Payload)
    /\ \A n, m \in DOMAIN out :
          n < m => \E i, j \in DOMAIN evs :
                      /\ i < j
                      /\ out[n].Description = evs[i].Description
                      /\ out[m].Description = evs[j].Description
C38_OnlyTheSetOfNames ==
    \A k \in Keys :
       LET all == Events(k, <<>>).elems
       IN /\ DistinctDescriptions(all)
          /\ \A S \in (SUBSET RequestNames) \ {{}} :
                LET one == Events(k, CanonicalList(S))
                IN /\ \A fs \in RequestLists : NamesOf(fs) = S => Events(k, fs) = one
                   /\ (ret.op = "Events" /\ ret.key = k /\ ret.fields # <<>>
                         /\ NamesOf(ret.fields) = S) => ret.val = one
                   /\ SubsequenceOf(one.elems, all)
          /\ \A f1, f2 \in RequestNames :
                PositionsOf(Events(k, <<f1, f2>>).elems, all) =
                   PositionsOf(Events(k, <<f1>>).elems, all)
                      \cup PositionsOf(Events(k, <<f2>>).elems, all)

\* Events("k1", "g", "f") has returned both events of a history: the first has
\* f and g, the second g alone; asking for g alone gives the same two with g
\* alone, asking for f alone gives the first with f alone
C38_Witness ==
    /\ ret.op = "Events" /\ ret.key = "k1" /\ ret.fields = <<"g", "f">>
    /\ LET evs == Stored("k1")
       IN /\ Len(evs) = 2
          /\ DOMAIN evs[1].Payload = {"f", "g"}
          /\ DOMAIN evs[2].Payload = {"g"}
          /\ Len(ret.val.elems) = 2
          /\ Len(Events("k1", <<"g">>).elems) = 2
          /\ Len(Events("k1", <<"f">>).elems) = 1
          /\ DOMAIN Events("k1", <<"f">>).elems[1].Payload = {"f"}

\* event i writes nil visibly to f, and no visible write before it gave f a value
NilOnNoValue(evs, i, f) ==
    /\ VisibleAt(evs, i, f) /\ evs[i].Payload[f].Data = Nil
    /\ \A j \in 1..(i - 1) : VisibleAt(evs, j, f) => evs[j].Payload[f].Data = Nil
ChangeFieldsFor(change, f) == {cf \in FieldsOf(change) : cf.Field = f}

(***************************************************************************)
(* C39 as stated: a visible write of nil to a field with no earlier value  *)
(* gives no ChangeField for the field, and the next visible write to the   *)
(* field is reported with From = nil.                                      *)
(***************************************************************************)
C39_NilAsMissing ==
    LogsReturned =>
        LET evs == Stored(ret.key)
        IN \A i \in DOMAIN evs : \A f \in Fields :
              NilOnNoValue(evs, i, f) =>
                 /\ ChangeFieldsFor(ret.val.changes[i], f) = {}
                 /\ \A j \in (i + 1)..Len(evs) :
                       (VisibleAt(evs, j, f) /\ \A m \in (i + 1)..(j - 1) : ~VisibleAt(evs, m, f)) =>
                          \E cf \in ChangeFieldsFor(ret.val.changes[j], f) : cf.From = Nil

(***************************************************************************)
(* C39, amended: a visible write of nil to a field with no earlier value   *)
(* gives no ChangeField for the field, and the first later visible write   *)
(* of a value other than nil to the field is reported with From = nil and  *)
(* To = that value.                                                        *)
(***************************************************************************)
C39_NilAsMissingNonNil ==
    LogsReturned =>
        LET evs == Stored(ret.key)
        IN \A i \in DOMAIN evs : \A f \in Fields :
              NilOnNoValue(evs, i, f) =>
                 /\ ChangeFieldsFor(ret.val.changes[i], f) = {}
                 /\ \A j \in (i + 1)..Len(evs) :
                       (/\ VisibleAt(evs, j, f) /\ evs[j].Payload[f].Data # Nil
                        /\ \A m \in (i + 1)..(j - 1) :
                              VisibleAt(evs, m, f) => evs[m].Payload[f].Data = Nil) =>
                          ChangeFieldsFor(ret.val.changes[j], f) =
                             {[Field |-> f, From |-> Nil, To |-> evs[j].Payload[f].Data]}

\* Logs has returned for a visible nil, a second visible nil and a visible "a" on
\* field f: no ChangeField for f in the first two Changes, From = nil in the third
C39_Witness ==
    /\ LogsReturned
    /\ LET evs == Stored(ret.key)
       IN /\ Len(evs) = 3
          /\ NilOnNoValue(evs, 1, "f") /\ NilOnNoValue(evs, 2, "f")
          /\ ChangeFieldsFor(ret.val.changes[1], "f") = {}
          /\ ChangeFieldsFor(ret.val.changes[2], "f") = {}
          /\ ChangeFieldsFor(ret.val.changes[3], "f") = {[Field |-> "f", From |-> Nil, To |-> "a"]}

\* the key was cleared, and the history removed gave some field a value
ClearedWithValues(k) == cleared[k] # {}
\* evs are the events of the write calls made since the key's last Clear
StoredSinceClear(evs, k) ==
    /\ Len(evs) = Len(written[k])
    /\ \A i \in DOMAIN evs :
          /\ evs[i].Payload = written[k][i].payload
          /\ evs[i].Author = written[k][i].author
          /\ evs[i].Description = written[k][i].description
\* what Get, Events and Logs return holds the events written since the Clear only
OnlySinceClear(k) ==
    /\ (ret.op = "Get" /\ ret.key = k) => StoredSinceClear(ret.val.elems, k)
    /\ (ret.op = "Events" /\ ret.key = k /\ ret.fields = <<>>) =>
          StoredSinceClear(ret.val.elems, k)
    /\ (ret.op = "Events" /\ ret.key = k /\ ret.fields # <<>>) =>
          \E M \in SUBSET DOMAIN written[k] :
             /\ Len(ret.val.elems) = Cardinality(M)
             /\ \A n \in DOMAIN ret.val.elems :
                   /\ SubPayload(ret.val.elems[n].Payload, written[k][Nth(M, n)].payload)
                   /\ ret.val.elems[n].Payload # <<>>
    /\ (LogsReturned /\ ret.key = k) => Len(ret.val.changes) = Len(written[k])
\* event i is the first since the Clear that writes f visibly
FirstVisibleAt(evs, i, f) ==
    VisibleAt(evs, i, f) /\ \A j \in 1..(i - 1) : ~VisibleAt(evs, j, f)
\* event i is the first since the Clear that writes a value other than nil visibly to f
FirstValueAt(evs, i, f) ==
    /\ VisibleAt(evs, i, f) /\ evs[i].Payload[f].Data # Nil
    /\ \A j \in 1..(i - 1) : VisibleAt(evs, j, f) => evs[j].Payload[f].Data = Nil

(***************************************************************************)
(* C40 as stated: after Clear(key), Get, Events and Logs report the events *)
(* stored after the Clear only, and the first visible write to a field     *)
(* after the Clear is reported with From = nil, also when the field had a  *)
(* value before the Clear.                                                 *)
(***************************************************************************)
C40_ClearStartsOver ==
    \A k \in Keys :
       ClearedWithValues(k) =>
          /\ OnlySinceClear(k)
          /\ (LogsReturned /\ ret.key = k) =>
                \A i \in DOMAIN Stored(k) : \A f \in Fields :
                   FirstVisibleAt(Stored(k), i, f) =>
                      \E cf \in ChangeFieldsFor(ret.val.changes[i], f) : cf.From = Nil

(***************************************************************************)
(* C40, amended: after Clear(key), Get, Events and Logs report the events  *)
(* stored after the Clear only, and the first visible write of a value     *)
(* other than nil to a field after the Clear is reported with From = nil   *)
(* and To = that value, also when the field had a value before the Clear.  *)
(***************************************************************************)
C40_ClearStartsOverNonNil ==
    \A k \in Keys :
       ClearedWithValues(k) =>
          /\ OnlySinceClear(k)
          /\ (LogsReturned /\ ret.key = k) =>
                \A i \in DOMAIN Stored(k) : \A f \in Fields :
                   FirstValueAt(Stored(k), i, f) =>
                      ChangeFieldsFor(ret.val.changes[i], f) =
                         {[Field |-> f, From |-> Nil, To |-> Stored(k)[i].Payload[f].Data]}

\* Logs has returned after a Clear that removed a value of f and after two writes
\* since: a visible nil to f, without a ChangeField, and then the value "b",
\* reported with From = nil
C40_Witness ==
    /\ LogsReturned /\ ret.key = "k1"
    /\ "f" \in cleared["k1"]
    /\ LET evs == Stored("k1")
       IN /\ Len(evs) = 2
          /\ NilOnNoValue(evs, 1, "f")
          /\ ChangeFieldsFor(ret.val.changes[1], "f") = {}
          /\ ChangeFieldsFor(ret.val.changes[2], "f") = {[Field |-> "f", From |-> Nil, To |-> "b"]}

====
